---------------------------- MODULE Spec2Model ----------------------------
(***************************************************************************)
(* A model of the FratmScript compiler pipeline (crates/fratm-core):       *)
(* lexer (lexer/mod.rs, lexer/token.rs), parser (parser/mod.rs) and code   *)
(* generator (codegen/mod.rs).                                             *)
(*                                                                         *)
(* A character is a one-character string.  The three accented letters of   *)
(* the keyword table are written "e^", "o^" and "i^" (U+00E8, U+00F2,      *)
(* U+00EC); each is two bytes of UTF-8, every other character one.         *)
(* A text (String / &str) is a sequence of characters; byte offsets are    *)
(* computed from the characters' UTF-8 lengths.                            *)
(* Option::None of a character is NoChar.                                  *)
(***************************************************************************)
EXTENDS Integers, Sequences, FiniteSets, TLC

VARIABLES
    source,     \* the source text handed to Lexer::new
    lexer,      \* the Lexer struct (lexer/mod.rs:68-85)
    tokens,     \* the Vec<Token> tokenize is building (lexer/mod.rs:132)
    pc,         \* position of the pipeline
    parser,     \* the Parser struct (parser/mod.rs:20-23)
    statements, \* the local statements of Parser::parse (parser/mod.rs:31)
    errors,     \* the local errors of Parser::parse (parser/mod.rs:32)
    result,     \* what Parser::parse returned, once it has
    program,    \* the Program handed to CodeGen::generate, once one was
    output,     \* the String CodeGen::generate returned (codegen/mod.rs:32)
    codegen,    \* the CodeGen struct after generate (codegen/mod.rs:6-13)
    vlq,        \* a call of vlq_encode: its argument and locals (sourcemap.rs:236)
    builder,    \* a SourceMapBuilder used alone (sourcemap.rs:78-93)
    source_map, \* the SourceMap build returned (sourcemap.rs:161-173)
    report,     \* a CompileError, its Display text and its message in
                \* Napoletano (errors.rs)
    spans       \* two spans and what Span::merge returned for them
                \* (lexer/token.rs:67-74)

vars ==
    <<source, lexer, tokens, pc, parser, statements, errors, result, program,
      output, codegen, vlq, builder, source_map, report, spans>>

\* the pipeline of lexer, parser and generator
pipeline ==
    <<source, lexer, tokens, pc, parser, statements, errors, result, program,
      output, codegen>>

\* what the pipeline of lexer, parser and generator leaves alone
aside == <<vlq, builder, source_map, report, spans>>

(***************************************************************************)
(* Bounds of the model.                                                    *)
(***************************************************************************)
MaxSrcLen == 4

\* the largest magnitude of the run of small values given to vlq_encode
MaxVlq == 40

\* the most segments given to a SourceMapBuilder
MaxSegments == 2

\* the most new_line calls on a SourceMapBuilder
MaxGenLine == 2

\* the longest sequence of source fragments of a parsed text
MaxFrags == 3

\* the same for the texts made of whole statements
MaxNameFrags == 2

(***************************************************************************)
(* Characters.                                                             *)
(***************************************************************************)
NoChar == ""

AsciiDigits == {"0", "1", "2", "3", "4", "5", "6", "7", "8", "9"}

Letters ==
    {"a", "b", "c", "d", "e", "f", "g", "h", "i", "j", "k", "l", "m", "n",
     "o", "p", "q", "r", "s", "t", "u", "v", "w", "x", "y", "z",
     "A", "B", "C", "P", "X", "e^", "o^", "i^"}

len_utf8(c) == IF c \in {"e^", "o^", "i^"} THEN 2 ELSE 1

is_ascii_digit(c) == c \in AsciiDigits

is_ident_start(c) == c \in Letters \/ c = "_"

is_ident_continue(c) == c \in Letters \/ c \in AsciiDigits \/ c = "_"

\* str::len, the sum of the len_utf8 of the characters: a character of n
\* bytes counts for the pairs <<i, 1>> .. <<i, n>>
ByteLen(s) ==
    Cardinality({x \in (1..Len(s)) \X (1..4) : x[2] <= len_utf8(s[x[1]])})

\* number of characters of s that lie before byte offset b, counted from
\* character i at byte offset off; sixteen characters are taken at once when
\* they end at or before b
RECURSIVE CharIndexFrom(_, _, _, _)
CharIndexFrom(s, i, off, b) ==
    IF off >= b \/ i >= Len(s) THEN i
    ELSE IF i + 16 <= Len(s) /\ off + ByteLen(SubSeq(s, i + 1, i + 16)) <= b
    THEN CharIndexFrom(s, i + 16, off + ByteLen(SubSeq(s, i + 1, i + 16)), b)
    ELSE CharIndexFrom(s, i + 1, off + len_utf8(s[i + 1]), b)

\* &source[a..b]
Slice(s, a, b) == SubSeq(s, CharIndexFrom(s, 0, 0, a) + 1, CharIndexFrom(s, 0, 0, b))

(***************************************************************************)
(* lexer/token.rs                                                          *)
(***************************************************************************)
SpanNew(start, end, line, column) ==
    [start |-> start, end |-> end, line |-> line, column |-> column]

TokenNew(kind, value, span, literal) ==
    [kind |-> kind, value |-> value, span |-> span, literal |-> literal]

KeywordTable ==
    {  <<<<"c","h","i","s","t">>, "Chist">>,
       <<<<"e^">>, "E">>,
       <<<<"t","i","e","n">>, "Tien">>,
       <<<<"f","a","c","c">>, "Facc">>,
       <<<<"p","i","g","l","i","e">>, "Piglie">>,
       <<<<"s","i">>, "Si">>,
       <<<<"s","i","n","n","o^">>, "Sinno">>,
       <<<<"p","e">>, "Pe">>,
       <<<<"o","g","n","i">>, "Ogni">>,
       <<<<"m","e","n","t","r","e">>, "Mentre">>,
       <<<<"c","h","e">>, "Che">>,
       <<<<"o","v","e","r","o">>, "Overo">>,
       <<<<"s","f","o^","l","s">>, "Sfols">>,
       <<<<"n","i","s","c","i","u","n">>, "Nisciun">>,
       <<<<"b","o","h">>, "Boh">>,
       <<<<"s","t","a","m","m">>, "Stamm">>,
       <<<<"a">>, "A">>,
       <<<<"d","i^">>, "Di">>,
       <<<<"m","o">>, "Mo">>,
       <<<<"v","i","r">>, "Vir">>,
       <<<<"a","s","p","e","t","t">>, "Aspett">>,
       <<<<"p","r","u","v","a","m","m">>, "Pruvamm">>,
       <<<<"s","c","h","i","a","t","t","a">>, "Schiatta">>,
       <<<<"i","e","t","t">>, "Iett">>,
       <<<<"n","u">>, "Nu">>,
       <<<<"b","e","l","l">>, "Bell">>,
       <<<<"n","a">>, "Na">>,
       <<<<"f","a","m","i","g","l","i","e">>, "Famiglie">>,
       <<<<"s","t","u">>, "Stu">>,
       <<<<"c","o","s">>, "Cos">>,
       <<<<"c","h","i","a","m","m">>, "Chiamm">>,
       <<<<"d","a">>, "Da">>,
       <<<<"m","a","n","n">>, "Mann">>,
       <<<<"f","o","r">>, "For">>,
       <<<<"p","r","e","d","e","f","i","n","i","t">>, "Predefinit">>,
       <<<<"r","o","m","p","e">>, "Rompe">>,
       <<<<"s","a","l","t","a">>, "Salta">>,
       <<<<"c","a","s","o">>, "Caso">>,
       <<<<"f","i","s","s","o">>, "Fisso">>,
       <<<<"f","i","g","l","i","o">>, "Figlio">>,
       <<<<"l","e","v","a">>, "Leva">>,
       <<<<"c","a","c","c","i","a">>, "Caccia">>,
       <<<<"f","e","r","m","e","t","e">>, "Fermete">>,
       <<<<"s","c","r","i","v","e">>, "Scrive">>,
       <<<<"a","v","v","i","s">>, "Avvis">>,
       <<<<"e">>, "And">>,
       <<<<"o">>, "Or">>,
       <<<<"n","o">>, "Not">>,
       <<<<"m","a","n","c","o">>, "Manco">>,
       <<<<"p","u","r","e">>, "Pure">>  }

\* a table that lacks the entry of "si"
lookup_keyword_ForgetsSi(ident) ==
    IF ident # <<"s", "i">> /\ \E k \in KeywordTable : k[1] = ident
    THEN (CHOOSE k \in KeywordTable : k[1] = ident)[2]
    ELSE "None"

\* Some(kind) is the kind, None is "None"
lookup_keyword(ident) ==
    IF \E k \in KeywordTable : k[1] = ident
    THEN (CHOOSE k \in KeywordTable : k[1] = ident)[2]
    ELSE "None"

(***************************************************************************)
(* lexer/mod.rs                                                            *)
(***************************************************************************)
\* idx is the state of the CharIndices iterator: the characters consumed
LexerNew(src) ==
    [source |-> src, idx |-> 0, position |-> 0, line |-> 1, column |-> 1,
     token_start |-> 0, token_line |-> 1, token_column |-> 1]

lex_peek(lx) ==
    IF lx.idx < Len(lx.source) THEN lx.source[lx.idx + 1] ELSE NoChar

lex_peek_next(lx) ==
    LET i == CharIndexFrom(lx.source, 0, 0, lx.position)
    IN  IF i + 2 <= Len(lx.source) THEN lx.source[i + 2] ELSE NoChar

\* lex_advance with the position counted in characters, not bytes
lex_advance_CountsChars(lx) ==
    IF lx.idx < Len(lx.source)
    THEN [lx EXCEPT !.idx = @ + 1, !.position = @ + 1, !.column = @ + 1]
    ELSE lx

\* the iterator's pos is the byte offset of the next character, lx.position
lex_advance(lx) ==
    IF lx.idx < Len(lx.source)
    THEN [lx EXCEPT !.idx = @ + 1,
                    !.position = @ + len_utf8(lx.source[lx.idx + 1]),
                    !.column = @ + 1]
    ELSE lx

mark_token_start(lx) ==
    [lx EXCEPT !.token_start = lx.position,
               !.token_line = lx.line,
               !.token_column = lx.column]

make_token(lx, kind, value) ==
    TokenNew(kind, value,
             SpanNew(lx.token_start, lx.position, lx.token_line, lx.token_column),
             Slice(lx.source, lx.token_start, lx.position))

\* a scan returns the lexer after it and the token made
Scanned(lx, kind, value) == [lx |-> lx, tok |-> make_token(lx, kind, value)]

\* the comment loops of skip_whitespace_and_comments
RECURSIVE skip_line_comment(_)
skip_line_comment(lx) ==
    IF lex_peek(lx) # "\n" /\ lex_peek(lx) # NoChar
    THEN skip_line_comment(lex_advance(lx))
    ELSE lx

RECURSIVE skip_block_comment(_)
skip_block_comment(lx) ==
    IF ~(lex_peek(lx) = "*" /\ lex_peek_next(lx) = "/")
    THEN IF lex_peek(lx) = NoChar THEN lx
         ELSE IF lex_peek(lx) = "\n"
              THEN skip_block_comment(
                       lex_advance([lx EXCEPT !.line = @ + 1, !.column = 0]))
              ELSE skip_block_comment(lex_advance(lx))
    ELSE lx

RECURSIVE skip_whitespace_and_comments(_)
skip_whitespace_and_comments(lx) ==
    LET c == lex_peek(lx)
    IN  IF c \in {" ", "\t", "\r"}
        THEN skip_whitespace_and_comments(lex_advance(lx))
        ELSE IF c = "/"
        THEN IF lex_peek_next(lx) = "/"
             THEN skip_whitespace_and_comments(skip_line_comment(lx))
             ELSE IF lex_peek_next(lx) = "*"
             THEN skip_whitespace_and_comments(
                      lex_advance(lex_advance(
                          skip_block_comment(lex_advance(lex_advance(lx))))))
             ELSE lx
        ELSE lx

\* the escape arms of scan_string (lexer/mod.rs:357-363)
Unescape(c) ==
    CASE c = "n" -> "\n"
      [] c = "t" -> "\t"
      [] c = "r" -> "\r"
      [] OTHER -> c

UnterminatedString == <<"Unterminated string">>

RECURSIVE scan_string_loop(_, _, _)
scan_string_loop(lx, quote, value) ==
    LET c == lex_peek(lx)
    IN  IF c = NoChar THEN Scanned(lx, "Invalid", UnterminatedString)
        ELSE IF c = quote
        THEN Scanned(lex_advance(lx), "String", value)
        ELSE LET l1 == IF c = "\n"
                       THEN [lx EXCEPT !.line = @ + 1, !.column = 0]
                       ELSE lx
             IN  IF c = "\\"
                 THEN LET l2 == lex_advance(l1)
                          e == lex_peek(l2)
                      IN  IF e = NoChar
                          THEN Scanned(l2, "Invalid", UnterminatedString)
                          ELSE scan_string_loop(lex_advance(l2), quote,
                                                Append(value, Unescape(e)))
                 ELSE scan_string_loop(lex_advance(l1), quote, Append(value, c))

\* scan_string making a String token of a literal that is never closed
scan_string_AcceptsOpen(lx, quote) ==
    LET r == scan_string_loop(lx, quote, <<>>)
    IN  IF r.tok.kind = "Invalid" THEN Scanned(r.lx, "String", <<>>) ELSE r

scan_string(lx, quote) == scan_string_loop(lx, quote, <<>>)

RECURSIVE scan_digits(_)
scan_digits(lx) ==
    IF is_ascii_digit(lex_peek(lx)) THEN scan_digits(lex_advance(lx)) ELSE lx

DigitValue(c) == CHOOSE d \in 0..9 : ToString(d) = c

RECURSIVE DigitsValue(_)
DigitsValue(s) ==
    IF s = <<>> THEN 0
    ELSE 10 * DigitsValue(SubSeq(s, 1, Len(s) - 1)) + DigitValue(s[Len(s)])

\* a finite decimal m / 10^s in lowest terms of 10, the value of an f64 that
\* holds it exactly
RECURSIVE Decimal(_, _)
Decimal(m, s) ==
    IF s > 0 /\ m % 10 = 0 THEN Decimal(m \div 10, s - 1) ELSE <<m, s>>

\* str::parse::<f64> on digits, optionally "." and digits: never an Err
parse_f64(literal) ==
    LET dots == {i \in 1..Len(literal) : literal[i] = "."}
    IN  IF dots = {} THEN Decimal(DigitsValue(literal), 0)
        ELSE LET d == CHOOSE i \in dots : TRUE
                 digits == SubSeq(literal, 1, d - 1) \o
                           SubSeq(literal, d + 1, Len(literal))
             IN  Decimal(DigitsValue(digits), Len(literal) - d)

scan_number(lx) ==
    LET l1 == scan_digits(lx)
        l2 == IF lex_peek(l1) = "." /\ is_ascii_digit(lex_peek_next(l1))
              THEN scan_digits(lex_advance(l1))
              ELSE l1
    IN  Scanned(l2, "Number", parse_f64(Slice(l2.source, l2.token_start, l2.position)))

RECURSIVE scan_ident_chars(_)
scan_ident_chars(lx) ==
    IF is_ident_continue(lex_peek(lx)) THEN scan_ident_chars(lex_advance(lx)) ELSE lx

scan_identifier(lx) ==
    LET l1 == scan_ident_chars(lx)
        literal == Slice(l1.source, l1.token_start, l1.position)
        keyword == lookup_keyword(literal)
    IN  IF keyword # "None" THEN Scanned(l1, keyword, <<>>)
        ELSE Scanned(l1, "Identifier", literal)

\* a match_char that matches nothing but '='
match_char_EqualOnly(lx, expected) ==
    IF lex_peek(lx) = expected /\ expected = "=" THEN lex_advance(lx) ELSE lx

\* match_char: the lexer after it; it matched iff the lexer moved
match_char(lx, expected) ==
    IF lex_peek(lx) = expected THEN lex_advance(lx) ELSE lx

SinglePunct ==
    {<<"(", "LeftParen">>, <<")", "RightParen">>, <<"{", "LeftBrace">>,
     <<"}", "RightBrace">>, <<"[", "LeftBracket">>, <<"]", "RightBracket">>,
     <<",", "Comma">>, <<".", "Dot">>, <<":", "Colon">>, <<";", "Semicolon">>,
     <<"?", "Question">>, <<"%", "Percent">>}

\* the operator arms of next_token (lexer/mod.rs:176-246)
scan_operator(lx, c) ==
    LET eq == match_char(lx, "=")
        eq2 == match_char(eq, "=")
    IN  CASE c = "+" -> IF eq # lx THEN Scanned(eq, "PlusEqual", <<>>)
                        ELSE Scanned(lx, "Plus", <<>>)
          [] c = "-" -> IF eq # lx THEN Scanned(eq, "MinusEqual", <<>>)
                        ELSE Scanned(lx, "Minus", <<>>)
          [] c = "*" -> IF match_char(lx, "*") # lx
                        THEN Scanned(match_char(lx, "*"), "StarStar", <<>>)
                        ELSE IF eq # lx THEN Scanned(eq, "StarEqual", <<>>)
                        ELSE Scanned(lx, "Star", <<>>)
          [] c = "/" -> IF eq # lx THEN Scanned(eq, "SlashEqual", <<>>)
                        ELSE Scanned(lx, "Slash", <<>>)
          [] c = "=" -> IF eq # lx
                        THEN IF eq2 # eq THEN Scanned(eq2, "EqualEqualEqual", <<>>)
                             ELSE Scanned(eq, "EqualEqual", <<>>)
                        ELSE IF match_char(lx, ">") # lx
                        THEN Scanned(match_char(lx, ">"), "Arrow", <<>>)
                        ELSE Scanned(lx, "Equal", <<>>)
          [] c = "!" -> IF eq # lx
                        THEN IF eq2 # eq THEN Scanned(eq2, "BangEqualEqual", <<>>)
                             ELSE Scanned(eq, "BangEqual", <<>>)
                        ELSE Scanned(lx, "Not", <<>>)
          [] c = "<" -> IF eq # lx THEN Scanned(eq, "LessEqual", <<>>)
                        ELSE Scanned(lx, "Less", <<>>)
          [] c = ">" -> IF eq # lx THEN Scanned(eq, "GreaterEqual", <<>>)
                        ELSE Scanned(lx, "Greater", <<>>)

next_token(lx0) ==
    LET l1 == mark_token_start(skip_whitespace_and_comments(lx0))
        c  == lex_peek(l1)
        lx == lex_advance(l1)
    IN  IF c = NoChar THEN Scanned(lx, "Eof", <<>>)
        ELSE IF \E p \in SinglePunct : p[1] = c
        THEN Scanned(lx, (CHOOSE p \in SinglePunct : p[1] = c)[2], <<>>)
        ELSE IF c \in {"+", "-", "*", "/", "=", "!", "<", ">"}
        THEN scan_operator(lx, c)
        ELSE IF c \in {"\"", "'"} THEN scan_string(lx, c)
        ELSE IF is_ascii_digit(c) THEN scan_number(lx)
        ELSE IF is_ident_start(c) THEN scan_identifier(lx)
        ELSE IF c = "\n"
        THEN Scanned([lx EXCEPT !.line = @ + 1, !.column = 1], "Newline", <<>>)
        ELSE Scanned(lx, "Invalid", <<c>>)

\* Lexer::tokenize, the whole loop
RECURSIVE tokenize_loop(_, _)
tokenize_loop(lx, toks) ==
    LET r == next_token(lx)
    IN  IF r.tok.kind = "Eof" THEN Append(toks, r.tok)
        ELSE tokenize_loop(r.lx, Append(toks, r.tok))

tokenize(src) == tokenize_loop(LexerNew(src), <<>>)

(***************************************************************************)
(* parser/mod.rs.  A parser value p is the Parser struct: the token vector *)
(* and the index current (0-based).  A parse function returns a Result     *)
(* with the parser after it: Ok(p, value), Err(p, message, span), or       *)
(* Overflow(p) when the recursion has no end (below).  Option<T> is a      *)
(* sequence of no or one T; Box<T> is T.                                   *)
(***************************************************************************)
ParserNew(toks) == [tokens |-> toks, current |-> 0]

Ok(p, v) == [kind |-> "Ok", p |-> p, val |-> v]

\* ParseError::new
Err(p, message, span) ==
    [kind |-> "Err", p |-> p, val |-> [message |-> message, span |-> span]]

\* The parse functions carry d, the cursor at which the innermost active call
\* of parse_expression was entered (NoCall when there is none).  The tokens
\* never change and the cursor never moves back, so a call of parse_expression
\* entered at cursor d inside that call is the same call again: it recurs
\* until the stack is exhausted and the process aborts.
Overflow(p) == [kind |-> "Overflow", p |-> p, val |-> <<>>]

NoCall == 0 - 1

\* The operator ?: the function returns r at once unless r is Ok, and goes on
\* with the parser and the value of r otherwise.
Try(r, Then(_)) == IF r.kind = "Ok" THEN Then(r) ELSE r

\* Some(value?)
Some(r) == Try(r, LAMBDA a : Ok(a.p, <<a.val>>))

peek(p) == p.tokens[p.current + 1]

\* tokens[current - 1]: an index panic when current is 0
previous(p) ==
    IF p.current = 0 THEN [kind |-> "IndexPanic", value |-> <<>>,
                           span |-> SpanNew(0, 0, 0, 0), literal |-> <<>>]
    ELSE p.tokens[p.current]

is_at_end(p) == peek(p).kind = "Eof"

\* the parser after advance; the token advance returns is previous of it
advance(p) == IF ~is_at_end(p) THEN [p EXCEPT !.current = @ + 1] ELSE p

check(p, kind) == peek(p).kind = kind

check_next(p, kind) ==
    IF p.current + 1 >= Len(p.tokens) THEN FALSE
    ELSE p.tokens[p.current + 2].kind = kind

\* the parser after match_token; it matched iff check(p, kind)
match_token(p, kind) == IF check(p, kind) THEN advance(p) ELSE p

expect(p, kind) ==
    IF check(p, kind) THEN Ok(advance(p), previous(advance(p)))
    ELSE Err(p, <<"Aspettavo '{}', ma ho trovato '{}'", kind, peek(p).kind>>,
             peek(p).span)

\* expect(k1)?; expect(k2)?; ...
RECURSIVE expect_all(_, _)
expect_all(p, kinds) ==
    IF kinds = <<>> THEN Ok(p, <<>>)
    ELSE Try(expect(p, Head(kinds)), LAMBDA r : expect_all(r.p, Tail(kinds)))

\* the token that advance returned, when the parser after it is q
TokenOr(q, kind, message) ==
    IF previous(q).kind = kind THEN Ok(q, previous(q).value)
    ELSE Err(q, <<message, previous(q).kind>>, previous(q).span)

expect_identifier(p) ==
    TokenOr(advance(p), "Identifier", "Aspettavo un nome, no '{}'")

expect_string(p) ==
    TokenOr(advance(p), "String", "Aspettavo una stringa, no '{}'")

current_span(p) == peek(p).span

span_from(p, start) ==
    SpanNew(start, previous(p).span.end, previous(p).span.line, 0)

SyncKinds ==
    {"Chist", "Tien", "Facc", "Si", "Mentre", "Pe", "Piglie", "Na", "Chiamm", "Mann"}

RECURSIVE synchronize_loop(_)
synchronize_loop(p) ==
    IF ~is_at_end(p)
    THEN IF peek(p).kind \in SyncKinds THEN p ELSE synchronize_loop(advance(p))
    ELSE p

synchronize(p) == synchronize_loop(advance(p))

\* while self.check(&TokenKind::Newline) { self.advance(); }
RECURSIVE skip_newlines(_)
skip_newlines(p) == IF check(p, "Newline") THEN skip_newlines(advance(p)) ELSE p

RECURSIVE parse_statement(_, _)
RECURSIVE parse_expression(_, _)
RECURSIVE parse_assignment(_, _)
RECURSIVE parse_ternary(_, _)
RECURSIVE parse_binary_level(_, _, _)
RECURSIVE parse_power(_, _)
RECURSIVE parse_unary(_, _)
RECURSIVE parse_call(_, _)
RECURSIVE parse_primary(_, _)
RECURSIVE parse_if(_, _)

\* while self.match_token(&TokenKind::Comma) { params.push(self.expect_identifier()?); }
RECURSIVE parse_parameters_loop(_, _)
parse_parameters_loop(p, params) ==
    IF check(p, "Comma")
    THEN Try(expect_identifier(advance(p)), LAMBDA r :
             parse_parameters_loop(r.p, Append(params, r.val)))
    ELSE Ok(p, params)

parse_parameters(p) ==
    Try(expect(p, "LeftParen"), LAMBDA r1 :
    Try(IF ~check(r1.p, "RightParen")
        THEN Try(expect_identifier(r1.p), LAMBDA r :
                 parse_parameters_loop(r.p, <<r.val>>))
        ELSE Ok(r1.p, <<>>), LAMBDA r2 :
    Try(expect(r2.p, "RightParen"), LAMBDA r3 : Ok(r3.p, r2.val))))

RECURSIVE parse_block_body_loop(_, _, _)
\* one pass of the while loop of parse_block_body, from the skipped newlines on
BlockBodyStatement(q, d, stmts) ==
    IF check(q, "RightBrace") THEN Ok(q, stmts)
    ELSE Try(parse_statement(q, d), LAMBDA r :
             parse_block_body_loop(r.p, d, Append(stmts, r.val)))

parse_block_body_loop(p, d, stmts) ==
    IF ~check(p, "RightBrace") /\ ~is_at_end(p)
    THEN BlockBodyStatement(skip_newlines(p), d, stmts)
    ELSE Ok(p, stmts)

parse_block_body(p, d) ==
    Try(expect(p, "LeftBrace"), LAMBDA r1 :
    Try(parse_block_body_loop(r1.p, d, <<>>), LAMBDA r2 :
    Try(expect(r2.p, "RightBrace"), LAMBDA r3 : Ok(r3.p, r2.val))))

parse_const_declaration(p, d) ==
    Try(expect_all(p, <<"Chist", "E">>), LAMBDA r1 :
    Try(expect_identifier(r1.p), LAMBDA r2 :
    Try(expect(r2.p, "Equal"), LAMBDA r3 :
    Try(parse_expression(r3.p, d), LAMBDA r4 :
        Ok(r4.p, [type |-> "VariableDecl", name |-> r2.val, value |-> <<r4.val>>,
                  is_const |-> TRUE,
                  span |-> span_from(r4.p, current_span(p).start)])))))

parse_let_declaration(p, d) ==
    Try(expect(p, "Tien"), LAMBDA r1 :
    Try(expect_identifier(r1.p), LAMBDA r2 :
    Try(IF check(r2.p, "Equal") THEN Some(parse_expression(advance(r2.p), d))
        ELSE Ok(r2.p, <<>>), LAMBDA r3 :
        Ok(r3.p, [type |-> "VariableDecl", name |-> r2.val, value |-> r3.val,
                  is_const |-> FALSE,
                  span |-> span_from(r3.p, current_span(p).start)]))))

\* parse_function and, with its two particles first, parse_async_function
FunctionDecl(p, d, particles, is_async) ==
    Try(expect_all(p, particles), LAMBDA r1 :
    Try(expect_identifier(r1.p), LAMBDA r2 :
    Try(parse_parameters(r2.p), LAMBDA r3 :
    Try(parse_block_body(r3.p, d), LAMBDA r4 :
        Ok(r4.p, [type |-> "FunctionDecl", name |-> r2.val, params |-> r3.val,
                  body |-> r4.val, is_async |-> is_async,
                  span |-> span_from(r4.p, current_span(p).start)])))))

parse_function(p, d) == FunctionDecl(p, d, <<"Facc">>, FALSE)

parse_async_function(p, d) == FunctionDecl(p, d, <<"Mo", "Vir", "Facc">>, TRUE)

parse_return(p, d) ==
    Try(expect(p, "Piglie"), LAMBDA r1 :
    Try(IF ~check(r1.p, "Newline") /\ ~check(r1.p, "RightBrace") /\ ~is_at_end(r1.p)
        THEN Some(parse_expression(r1.p, d))
        ELSE Ok(r1.p, <<>>), LAMBDA r2 :
        Ok(r2.p, [type |-> "Return", value |-> r2.val,
                  span |-> span_from(r2.p, current_span(p).start)])))

\* expect the particles, "(", a condition, ")" and a block: the common part of
\* parse_if and parse_while; the value is <<condition, body>>
ConditionAndBody(p, d, particles) ==
    Try(expect_all(p, particles \o <<"LeftParen">>), LAMBDA r1 :
    Try(parse_expression(r1.p, d), LAMBDA r2 :
    Try(expect(r2.p, "RightParen"), LAMBDA r3 :
    Try(parse_block_body(r3.p, d), LAMBDA r4 : Ok(r4.p, <<r2.val, r4.val>>)))))

\* the else branch after "sinnò", with the parser q after it: Some(vec![if])
\* or Some(block)
ElseBranch(q, d) ==
    IF check(q, "Si") THEN Try(parse_if(q, d), LAMBDA r : Ok(r.p, <<<<r.val>>>>))
    ELSE Some(parse_block_body(q, d))

parse_if(p, d) ==
    Try(ConditionAndBody(p, d, <<"Si">>), LAMBDA r1 :
    Try(IF check(r1.p, "Sinno") THEN ElseBranch(advance(r1.p), d)
        ELSE Ok(r1.p, <<>>), LAMBDA r2 :
        Ok(r2.p, [type |-> "If", condition |-> r1.val[1],
                  then_branch |-> r1.val[2], else_branch |-> r2.val,
                  span |-> span_from(r2.p, current_span(p).start)])))

parse_while(p, d) ==
    Try(ConditionAndBody(p, d, <<"Mentre", "Che">>), LAMBDA r1 :
        Ok(r1.p, [type |-> "While", condition |-> r1.val[1], body |-> r1.val[2],
                  span |-> span_from(r1.p, current_span(p).start)]))

\* a clause of the for header that may not be absent
OptionalExpression_Required(p, d, stop) == Some(parse_expression(p, d))

\* an optional clause of the for header: absent when the token `stop` is next
OptionalExpression(p, d, stop) ==
    IF ~check(p, stop) THEN Some(parse_expression(p, d)) ELSE Ok(p, <<>>)

\* the init clause of the for header
ForInit(p, d) ==
    IF check(p, "Tien") THEN Some(parse_let_declaration(p, d))
    ELSE Try(OptionalExpression(p, d, "Semicolon"), LAMBDA r :
             IF r.val = <<>> THEN r
             ELSE Ok(r.p, <<[type |-> "Expression", expression |-> r.val[1],
                             span |-> current_span(r.p)]>>))

parse_for(p, d) ==
    Try(expect(p, "Pe"), LAMBDA r1 :
    Try(expect(match_token(r1.p, "Ogni"), "LeftParen"), LAMBDA r2 :
    Try(ForInit(r2.p, d), LAMBDA r3 :
    Try(expect(r3.p, "Semicolon"), LAMBDA r4 :
    Try(OptionalExpression(r4.p, d, "Semicolon"), LAMBDA r5 :
    Try(expect(r5.p, "Semicolon"), LAMBDA r6 :
    Try(OptionalExpression(r6.p, d, "RightParen"), LAMBDA r7 :
    Try(expect(r7.p, "RightParen"), LAMBDA r8 :
    Try(parse_block_body(r8.p, d), LAMBDA r9 :
        Ok(r9.p, [type |-> "For", init |-> r3.val, condition |-> r5.val,
                  update |-> r7.val, body |-> r9.val,
                  span |-> span_from(r9.p, current_span(p).start)]))))))))))

\* parse_break, parse_continue, parse_debugger
KeywordStatement(p, kind, type) ==
    Try(expect(p, kind), LAMBDA r1 :
        Ok(r1.p, [type |-> type, span |-> span_from(r1.p, current_span(p).start)]))

\* the optional "(name)" of the catch clause
CatchParam(p) ==
    IF check(p, "LeftParen")
    THEN Try(expect_identifier(advance(p)), LAMBDA ra :
         Try(expect(ra.p, "RightParen"), LAMBDA rb : Ok(rb.p, <<ra.val>>)))
    ELSE Ok(p, <<>>)

parse_try_catch(p, d) ==
    Try(expect(p, "Pruvamm"), LAMBDA r1 :
    Try(parse_block_body(r1.p, d), LAMBDA r2 :
    Try(expect_all(r2.p, <<"And", "Si", "Schiatta">>), LAMBDA r3 :
    Try(CatchParam(r3.p), LAMBDA r4 :
    Try(parse_block_body(r4.p, d), LAMBDA r5 :
        Ok(r5.p, [type |-> "TryCatch", try_body |-> r2.val,
                  catch_param |-> r4.val, catch_body |-> r5.val,
                  span |-> span_from(r5.p, current_span(p).start)]))))))

parse_throw(p, d) ==
    Try(expect(p, "Iett"), LAMBDA r1 :
    Try(parse_expression(r1.p, d), LAMBDA r2 :
        Ok(r2.p, [type |-> "Throw", value |-> r2.val,
                  span |-> span_from(r2.p, current_span(p).start)])))

RECURSIVE parse_class_loop(_, _, _)
\* one pass of the while loop of parse_class, from the skipped newlines on
ClassMethod(q, d, methods) ==
    IF check(q, "RightBrace") THEN Ok(q, methods)
    ELSE Try(parse_function(q, d), LAMBDA r :
             parse_class_loop(r.p, d, Append(methods, r.val)))

parse_class_loop(p, d, methods) ==
    IF ~check(p, "RightBrace") /\ ~is_at_end(p)
    THEN ClassMethod(skip_newlines(p), d, methods)
    ELSE Ok(p, methods)

parse_class(p, d) ==
    Try(expect_all(p, <<"Na", "Famiglie">>), LAMBDA r1 :
    Try(expect_identifier(r1.p), LAMBDA r2 :
    Try(expect(r2.p, "LeftBrace"), LAMBDA r3 :
    Try(parse_class_loop(r3.p, d, <<>>), LAMBDA r4 :
    Try(expect(r4.p, "RightBrace"), LAMBDA r5 :
        Ok(r5.p, [type |-> "ClassDecl", name |-> r2.val, methods |-> r4.val,
                  span |-> span_from(r5.p, current_span(p).start)]))))))

RECURSIVE parse_import_loop(_, _)
parse_import_loop(p, specifiers) ==
    Try(expect_identifier(p), LAMBDA r :
        IF ~check(r.p, "Comma")
        THEN Ok(r.p, Append(specifiers, [imported |-> r.val, local |-> r.val]))
        ELSE parse_import_loop(advance(r.p),
                 Append(specifiers, [imported |-> r.val, local |-> r.val])))

parse_import(p) ==
    Try(expect_all(p, <<"Chiamm", "LeftBrace">>), LAMBDA r1 :
    Try(IF ~check(r1.p, "RightBrace") THEN parse_import_loop(r1.p, <<>>)
        ELSE Ok(r1.p, <<>>), LAMBDA r2 :
    Try(expect_all(r2.p, <<"RightBrace", "Da">>), LAMBDA r3 :
    Try(expect_string(r3.p), LAMBDA r4 :
        Ok(r4.p, [type |-> "Import", specifiers |-> r2.val, source |-> r4.val,
                  span |-> span_from(r4.p, current_span(p).start)])))))

parse_export(p, d) ==
    Try(expect_all(p, <<"Mann", "For">>), LAMBDA r1 :
        IF check(r1.p, "Predefinit")
        THEN Try(parse_expression(advance(r1.p), d), LAMBDA r2 :
                 Ok(r2.p, [type |-> "Export", declaration |-> <<>>,
                           default_value |-> <<r2.val>>,
                           span |-> span_from(r2.p, current_span(p).start)]))
        ELSE Try(parse_statement(r1.p, d), LAMBDA r2 :
                 Ok(r2.p, [type |-> "Export", declaration |-> <<r2.val>>,
                           default_value |-> <<>>,
                           span |-> span_from(r2.p, current_span(p).start)])))

parse_block(p, d) ==
    Try(parse_block_body(p, d), LAMBDA r1 :
        Ok(r1.p, [type |-> "Block", statements |-> r1.val,
                  span |-> span_from(r1.p, current_span(p).start)]))

parse_expression_statement(p, d) ==
    Try(parse_expression(p, d), LAMBDA r1 :
        Ok(r1.p, [type |-> "Expression", expression |-> r1.val,
                  span |-> span_from(r1.p, current_span(p).start)]))

\* the match of parse_statement, after its newlines
StatementAt(p, d) ==
    CASE check(p, "Chist") -> parse_const_declaration(p, d)
      [] check(p, "Tien") -> parse_let_declaration(p, d)
      [] check(p, "Mo") /\ check_next(p, "Vir") -> parse_async_function(p, d)
      [] check(p, "Facc") -> parse_function(p, d)
      [] check(p, "Piglie") -> parse_return(p, d)
      [] check(p, "Si") -> parse_if(p, d)
      [] check(p, "Mentre") -> parse_while(p, d)
      [] check(p, "Pe") -> parse_for(p, d)
      [] check(p, "Rompe") -> KeywordStatement(p, "Rompe", "Break")
      [] check(p, "Salta") -> KeywordStatement(p, "Salta", "Continue")
      [] check(p, "Fermete") -> KeywordStatement(p, "Fermete", "Debugger")
      [] check(p, "Pruvamm") -> parse_try_catch(p, d)
      [] check(p, "Iett") -> parse_throw(p, d)
      [] check(p, "Na") -> parse_class(p, d)
      [] check(p, "Chiamm") -> parse_import(p)
      [] check(p, "Mann") -> parse_export(p, d)
      [] check(p, "LeftBrace") -> parse_block(p, d)
      [] OTHER -> parse_expression_statement(p, d)

parse_statement(p, d) == StatementAt(skip_newlines(p), d)

parse_expression(p, d) ==
    IF p.current = d THEN Overflow(p) ELSE parse_assignment(p, p.current)

parse_assignment(p, d) ==
    Try(parse_ternary(p, d), LAMBDA r1 :
        IF check(r1.p, "Equal")
        THEN Try(parse_assignment(advance(r1.p), d), LAMBDA r2 :
                 Ok(r2.p, [type |-> "Assignment", target |-> r1.val, value |-> r2.val,
                           span |-> span_from(r2.p, r1.val.span.start)]))
        ELSE r1)

parse_ternary(p, d) ==
    Try(parse_binary_level(p, d, 1), LAMBDA r1 :
        IF check(r1.p, "Question")
        THEN Try(parse_expression(advance(r1.p), d), LAMBDA r2 :
             Try(expect(r2.p, "Colon"), LAMBDA r3 :
             Try(parse_ternary(r3.p, d), LAMBDA r4 :
                 Ok(r4.p, [type |-> "Ternary", condition |-> r1.val,
                           consequent |-> r2.val, alternate |-> r4.val,
                           span |-> span_from(r4.p, r1.val.span.start)]))))
        ELSE r1)

\* The tokens matched by the loops of parse_or (level 1), parse_and (2),
\* parse_equality (3), parse_comparison (4), parse_term (5), parse_factor (6),
\* each with its BinaryOp
BinaryLevelOps(level) ==
    CASE level = 1 -> {<<"Or", "Or">>}
      [] level = 2 -> {<<"And", "And">>, <<"Pure", "And">>}
      [] level = 3 -> {<<"EqualEqualEqual", "StrictEqual">>, <<"EqualEqual", "Equal">>,
                       <<"BangEqualEqual", "StrictNotEqual">>, <<"BangEqual", "NotEqual">>}
      [] level = 4 -> {<<"Less", "LessThan">>, <<"LessEqual", "LessEqual">>,
                       <<"Greater", "GreaterThan">>, <<"GreaterEqual", "GreaterEqual">>}
      [] level = 5 -> {<<"Plus", "Add">>, <<"Minus", "Subtract">>}
      [] level = 6 -> {<<"Star", "Multiply">>, <<"Slash", "Divide">>,
                       <<"Percent", "Modulo">>}

\* the right operand of a level's operator: the next tighter level,
\* parse_power below parse_factor
BinaryOperand(p, d, level) ==
    IF level = 6 THEN parse_power(p, d) ELSE parse_binary_level(p, d, level + 1)

\* the while loop of one level, on the expression parsed so far
RECURSIVE parse_binary_loop(_, _, _, _)
parse_binary_loop(p, d, level, expr) ==
    IF \E e \in BinaryLevelOps(level) : check(p, e[1])
    THEN Try(BinaryOperand(advance(p), d, level), LAMBDA r :
             parse_binary_loop(r.p, d, level,
                 [type |-> "Binary", left |-> expr,
                  operator |-> (CHOOSE e \in BinaryLevelOps(level) : check(p, e[1]))[2],
                  right |-> r.val,
                  span |-> span_from(r.p, expr.span.start)]))
    ELSE Ok(p, expr)

\* the loops of the levels from `from` down to `level`, one after the other
RECURSIVE parse_binary_loops(_, _, _, _)
parse_binary_loops(r, d, from, level) ==
    IF r.kind # "Ok" \/ from < level THEN r
    ELSE parse_binary_loops(parse_binary_loop(r.p, d, from, r.val), d, from - 1, level)

\* A level's function parses its first operand with the next tighter level's
\* function and then runs its loop; so the first thing any level does is to
\* call parse_power, followed by the loops of parse_factor and of each looser
\* level down to this one.
parse_binary_level(p, d, level) ==
    parse_binary_loops(parse_power(p, d), d, 6, level)

parse_or(p, d) == parse_binary_level(p, d, 1)

parse_and(p, d) == parse_binary_level(p, d, 2)

parse_equality(p, d) == parse_binary_level(p, d, 3)

parse_comparison(p, d) == parse_binary_level(p, d, 4)

parse_term(p, d) == parse_binary_level(p, d, 5)

parse_factor(p, d) == parse_binary_level(p, d, 6)

\* a power whose right operand is a unary expression and no power
parse_power_Flat(p, d) ==
    Try(parse_unary(p, d), LAMBDA r1 :
        IF check(r1.p, "StarStar")
        THEN Try(parse_unary(advance(r1.p), d), LAMBDA r2 :
                 Ok(r2.p, [type |-> "Binary", left |-> r1.val, operator |-> "Power",
                           right |-> r2.val,
                           span |-> span_from(r2.p, r1.val.span.start)]))
        ELSE r1)

parse_power(p, d) ==
    Try(parse_unary(p, d), LAMBDA r1 :
        IF check(r1.p, "StarStar")
        THEN Try(parse_power(advance(r1.p), d), LAMBDA r2 :
                 Ok(r2.p, [type |-> "Binary", left |-> r1.val, operator |-> "Power",
                           right |-> r2.val,
                           span |-> span_from(r2.p, r1.val.span.start)]))
        ELSE r1)

\* the node of a prefix operator of kind k that starts at start, on its operand
UnaryNode(k, operand, span) ==
    CASE k = "Minus" ->
           [type |-> "Unary", operator |-> "Negate", operand |-> operand, span |-> span]
      [] k \in {"Not", "Manco"} ->
           [type |-> "Unary", operator |-> "Not", operand |-> operand, span |-> span]
      [] k = "Aspett" -> [type |-> "Await", argument |-> operand, span |-> span]
      [] k = "Leva" -> [type |-> "Delete", operand |-> operand, span |-> span]

parse_unary(p, d) ==
    IF peek(p).kind \in {"Minus", "Not", "Manco", "Aspett", "Leva"}
    THEN Try(parse_unary(advance(p), d), LAMBDA r :
             Ok(r.p, UnaryNode(peek(p).kind, r.val,
                               span_from(r.p, previous(advance(p)).span.start))))
    ELSE parse_call(p, d)

\* while self.match_token(&TokenKind::Comma) { args.push(self.parse_expression()?); }
RECURSIVE parse_arguments_loop(_, _, _)
parse_arguments_loop(p, d, args) ==
    IF check(p, "Comma")
    THEN Try(parse_expression(advance(p), d), LAMBDA r :
             parse_arguments_loop(r.p, d, Append(args, r.val)))
    ELSE Ok(p, args)

parse_arguments(p, d) ==
    Try(IF ~check(p, "RightParen")
        THEN Try(parse_expression(p, d), LAMBDA r :
                 parse_arguments_loop(r.p, d, <<r.val>>))
        ELSE Ok(p, <<>>), LAMBDA r1 :
    Try(expect(r1.p, "RightParen"), LAMBDA r2 : Ok(r2.p, r1.val)))

RECURSIVE parse_call_loop(_, _, _)
parse_call_loop(p, d, expr) ==
    CASE check(p, "LeftParen") ->
           Try(parse_arguments(advance(p), d), LAMBDA r :
               parse_call_loop(r.p, d,
                   [type |-> "Call", callee |-> expr, arguments |-> r.val,
                    span |-> span_from(r.p, expr.span.start)]))
      [] check(p, "Dot") ->
           Try(expect_identifier(advance(p)), LAMBDA r :
               parse_call_loop(r.p, d,
                   [type |-> "Member", object |-> expr,
                    property |-> [type |-> "Identifier", name |-> r.val,
                                  span |-> previous(r.p).span],
                    computed |-> FALSE, span |-> span_from(r.p, expr.span.start)]))
      [] check(p, "LeftBracket") ->
           Try(parse_expression(advance(p), d), LAMBDA r1 :
           Try(expect(r1.p, "RightBracket"), LAMBDA r2 :
               parse_call_loop(r2.p, d,
                   [type |-> "Member", object |-> expr, property |-> r1.val,
                    computed |-> TRUE, span |-> span_from(r2.p, expr.span.start)])))
      [] OTHER -> Ok(p, expr)

parse_call(p, d) ==
    Try(parse_primary(p, d), LAMBDA r : parse_call_loop(r.p, d, r.val))

\* the elements of an array literal after the first
RECURSIVE parse_elements_loop(_, _, _)
parse_elements_loop(p, d, elements) ==
    IF check(p, "Comma")
    THEN IF check(advance(p), "RightBracket") THEN Ok(advance(p), elements)
         ELSE Try(parse_expression(advance(p), d), LAMBDA r :
                  parse_elements_loop(r.p, d, Append(elements, r.val)))
    ELSE Ok(p, elements)

RECURSIVE parse_properties_loop(_, _, _)
\* the end of one pass of the loop over the properties, from the newlines
\* skipped after the value on
PropertiesNext(q, d, props) ==
    IF ~check(q, "Comma") THEN Ok(q, props)
    ELSE IF check(skip_newlines(advance(q)), "RightBrace")
         THEN Ok(skip_newlines(advance(q)), props)
         ELSE parse_properties_loop(skip_newlines(advance(q)), d, props)

\* the loop over the properties of an object literal
parse_properties_loop(p, d, properties) ==
    IF check(skip_newlines(p), "RightBrace") THEN Ok(skip_newlines(p), properties)
    ELSE Try(expect_identifier(skip_newlines(p)), LAMBDA r1 :
         Try(expect(r1.p, "Colon"), LAMBDA r2 :
         Try(parse_expression(r2.p, d), LAMBDA r3 :
             PropertiesNext(skip_newlines(r3.p), d,
                            Append(properties, <<r1.val, r3.val>>)))))

\* "a dì (" and the arguments, after stamm, avvis or scrive
ConsoleCall(p, d, type, span) ==
    Try(expect_all(p, <<"A", "Di", "LeftParen">>), LAMBDA r1 :
    Try(parse_arguments(r1.p, d), LAMBDA r2 :
        Ok(r2.p, [type |-> type, arguments |-> r2.val,
                  span |-> span_from(r2.p, span.start)])))

\* a New that keeps a call as its callee
NewNode_CallKept(callee, span) ==
    [type |-> "New", callee |-> callee, arguments |-> <<>>, span |-> span]

\* the callee of "nu bell": a call gives its callee and arguments to New
NewNode(callee, span) ==
    IF callee.type = "Call"
    THEN [type |-> "New", callee |-> callee.callee, arguments |-> callee.arguments,
          span |-> span]
    ELSE [type |-> "New", callee |-> callee, arguments |-> <<>>, span |-> span]

\* an arrow function whose body is always read as an expression
ArrowFunction_ExpressionOnly(q, d, expr, span) ==
    Try(parse_expression(q, d), LAMBDA r :
        Ok(r.p, [type |-> "ArrowFunction",
                 params |-> IF expr.type = "Identifier" THEN <<expr.name>>
                            ELSE <<>>,
                 body |-> [type |-> "Expression", expression |-> r.val],
                 span |-> span_from(r.p, span.start)]))

\* after "(expr) =>", with the parser q after the arrow
ArrowFunction(q, d, expr, span) ==
    IF check(q, "LeftBrace")
    THEN Try(parse_block_body(q, d), LAMBDA r :
             Ok(r.p, [type |-> "ArrowFunction",
                      params |-> IF expr.type = "Identifier" THEN <<expr.name>>
                                 ELSE <<>>,
                      body |-> [type |-> "Block", statements |-> r.val],
                      span |-> span_from(r.p, span.start)]))
    ELSE Try(parse_expression(q, d), LAMBDA r :
             Ok(r.p, [type |-> "ArrowFunction",
                      params |-> IF expr.type = "Identifier" THEN <<expr.name>>
                                 ELSE <<>>,
                      body |-> [type |-> "Expression", expression |-> r.val],
                      span |-> span_from(r.p, span.start)]))

\* the match of parse_primary on the token that advance returned, with the
\* parser p after it
PrimaryOf(token, p, d) ==
    CASE token.kind = "Number" ->
           Ok(p, [type |-> "Number", value |-> token.value, span |-> token.span])
      [] token.kind = "String" ->
           Ok(p, [type |-> "String", value |-> token.value, span |-> token.span])
      [] token.kind = "Overo" ->
           Ok(p, [type |-> "Boolean", value |-> TRUE, span |-> token.span])
      [] token.kind = "Sfols" ->
           Ok(p, [type |-> "Boolean", value |-> FALSE, span |-> token.span])
      [] token.kind = "Nisciun" -> Ok(p, [type |-> "Null", span |-> token.span])
      [] token.kind = "Boh" -> Ok(p, [type |-> "Undefined", span |-> token.span])
      [] token.kind = "Stu" ->
           Try(expect(p, "Cos"), LAMBDA r :
               Ok(r.p, [type |-> "This", span |-> span_from(r.p, token.span.start)]))
      [] token.kind = "Nu" ->
           Try(expect(p, "Bell"), LAMBDA r1 :
           Try(parse_call(r1.p, d), LAMBDA r2 :
               Ok(r2.p, NewNode(r2.val, span_from(r2.p, token.span.start)))))
      [] token.kind = "Stamm" -> ConsoleCall(p, d, "ConsoleLog", token.span)
      [] token.kind = "Avvis" -> ConsoleCall(p, d, "ConsoleWarn", token.span)
      [] token.kind = "Scrive" -> ConsoleCall(p, d, "ConsoleError", token.span)
      [] token.kind = "Identifier" ->
           Ok(p, [type |-> "Identifier", name |-> token.value, span |-> token.span])
      [] token.kind = "LeftParen" ->
           Try(parse_expression(p, d), LAMBDA r1 :
           Try(expect(r1.p, "RightParen"), LAMBDA r2 :
               IF check(r2.p, "Arrow")
               THEN ArrowFunction(advance(r2.p), d, r1.val, token.span)
               ELSE Ok(r2.p, r1.val)))
      [] token.kind = "LeftBracket" ->
           Try(IF ~check(p, "RightBracket")
               THEN Try(parse_expression(p, d), LAMBDA r :
                        parse_elements_loop(r.p, d, <<r.val>>))
               ELSE Ok(p, <<>>), LAMBDA r1 :
           Try(expect(r1.p, "RightBracket"), LAMBDA r2 :
               Ok(r2.p, [type |-> "Array", elements |-> r1.val,
                         span |-> span_from(r2.p, token.span.start)])))
      [] token.kind = "LeftBrace" ->
           Try(IF ~check(skip_newlines(p), "RightBrace")
               THEN parse_properties_loop(skip_newlines(p), d, <<>>)
               ELSE Ok(skip_newlines(p), <<>>), LAMBDA r1 :
           Try(expect(skip_newlines(r1.p), "RightBrace"), LAMBDA r2 :
               Ok(r2.p, [type |-> "Object", properties |-> r1.val,
                         span |-> span_from(r2.p, token.span.start)])))
      [] OTHER ->
           Err(p, <<"Ma che e' '{}' qua? Aspettavo un'espressione!", token.kind>>,
               token.span)

parse_primary(p, d) == PrimaryOf(previous(advance(p)), advance(p), d)

\* a match that records the error of a failed statement and goes back to
\* where the iteration began, without recovery
StatementResult_Rewinds(st, r) ==
    CASE r.kind = "Ok" -> [st EXCEPT !.p = r.p, !.statements = Append(@, r.val)]
      [] r.kind = "Err" -> [st EXCEPT !.errors = Append(@, r.val)]
      [] OTHER -> [st EXCEPT !.p = r.p, !.aborted = TRUE]

\* the match on the statement's result in the loop of Parser::parse
StatementResult(st, r) ==
    CASE r.kind = "Ok" -> [st EXCEPT !.p = r.p, !.statements = Append(@, r.val)]
      [] r.kind = "Err" ->
           [st EXCEPT !.p = synchronize(r.p), !.errors = Append(@, r.val)]
      [] OTHER -> [st EXCEPT !.p = r.p, !.aborted = TRUE]

\* one iteration of the while loop of Parser::parse, on the parser and the two
\* local vectors; aborted when the statement's recursion has no end
parse_iteration(st) ==
    IF is_at_end(skip_newlines(st.p)) THEN [st EXCEPT !.p = skip_newlines(st.p)]
    ELSE StatementResult(st, parse_statement(skip_newlines(st.p), NoCall))

NoResult == [kind |-> "None", val |-> <<>>]

\* the process died of stack exhaustion: parse returned nothing
StackOverflow == [kind |-> "StackOverflow", val |-> <<>>]

\* if errors.is_empty() { Ok(Program { statements }) } else { Err(errors) }
parse_result(stmts, errs) ==
    IF errs = <<>> THEN [kind |-> "Ok", val |-> [statements |-> stmts]]
    ELSE [kind |-> "Err", val |-> errs]

RECURSIVE parse_loop(_)
parse_loop(st) ==
    IF st.aborted THEN StackOverflow
    ELSE IF is_at_end(st.p) THEN parse_result(st.statements, st.errors)
    ELSE parse_loop(parse_iteration(st))

\* Parser::new(tokens).parse(), the whole run
parse(toks) ==
    parse_loop([p |-> ParserNew(toks), statements |-> <<>>, errors |-> <<>>,
                aborted |-> FALSE])

(***************************************************************************)
(* codegen/mod.rs.  The output String is the sequence of the strings given *)
(* to emit, in order; Text joins them.  indent is the field of CodeGen.    *)
(* A call of add_mapping stands among them as Mapping(span).               *)
(***************************************************************************)
\* self.add_mapping(span.line, span.column)
Mapping(span) == <<"add_mapping", span>>

IsMapping(piece) == Len(piece) = 2 /\ piece[1] = "add_mapping"

\* String::push_str over the emitted strings, half by half
RECURSIVE Text(_)
Text(pieces) ==
    IF pieces = <<>> THEN <<>>
    ELSE IF Len(pieces) = 1
    THEN (IF IsMapping(pieces[1]) THEN <<>> ELSE pieces[1])
    ELSE Text(SubSeq(pieces, 1, Len(pieces) \div 2))
             \o Text(SubSeq(pieces, Len(pieces) \div 2 + 1, Len(pieces)))

\* for _ in 0..self.indent { self.emit("  "); }
write_indent(indent) == [i \in 1..indent |-> <<" ", " ">>]

\* names.join(", "), as one string
RECURSIVE join(_)
join(names) ==
    IF names = <<>> THEN <<>>
    ELSE IF Len(names) = 1 THEN names[1]
    ELSE names[1] \o <<",", " ">> \o join(Tail(names))

\* BinaryOp::to_js (parser/ast.rs:222-241)
BinaryOp_to_js(operator) ==
    CASE operator = "Add" -> <<"+">>
      [] operator = "Subtract" -> <<"-">>
      [] operator = "Multiply" -> <<"*">>
      [] operator = "Divide" -> <<"/">>
      [] operator = "Modulo" -> <<"%">>
      [] operator = "Power" -> <<"*", "*">>
      [] operator = "Equal" -> <<"=", "=">>
      [] operator = "StrictEqual" -> <<"=", "=", "=">>
      [] operator = "NotEqual" -> <<"!", "=">>
      [] operator = "StrictNotEqual" -> <<"!", "=", "=">>
      [] operator = "LessThan" -> <<"<">>
      [] operator = "GreaterThan" -> <<">">>
      [] operator = "LessEqual" -> <<"<", "=">>
      [] operator = "GreaterEqual" -> <<">", "=">>
      [] operator = "And" -> <<"&", "&">>
      [] operator = "Or" -> <<"|", "|">>

\* UnaryOp::to_js (parser/ast.rs:251-256)
UnaryOp_to_js(operator) == IF operator = "Negate" THEN <<"-">> ELSE <<"!">>

\* i64::to_string of n >= 0
RECURSIVE i64_to_string(_)
i64_to_string(n) ==
    IF n < 10 THEN <<ToString(n)>>
    ELSE Append(i64_to_string(n \div 10), ToString(n % 10))

\* zeros before the digits ds, up to n digits
RECURSIVE ZeroPad(_, _)
ZeroPad(ds, n) == IF Len(ds) >= n THEN ds ELSE ZeroPad(<<"0">> \o ds, n)

\* the text of an integer with ".0" after it, as the Debug form of an f64
number_to_string_Debug(value) ==
    IF value[2] = 0 THEN i64_to_string(value[1]) \o <<".", "0">>
    ELSE SubSeq(ZeroPad(i64_to_string(value[1]), value[2] + 1), 1,
                Len(ZeroPad(i64_to_string(value[1]), value[2] + 1)) - value[2])
         \o <<".">>
         \o SubSeq(ZeroPad(i64_to_string(value[1]), value[2] + 1),
                   Len(ZeroPad(i64_to_string(value[1]), value[2] + 1)) - value[2] + 1,
                   Len(ZeroPad(i64_to_string(value[1]), value[2] + 1)))

\* The text of Expression::Number for the value m / 10^s: the digits of an
\* integer, and for another value f64::to_string, the shortest decimal that
\* reads back as the value.
number_to_string(value) ==
    IF value[2] = 0 THEN i64_to_string(value[1])
    ELSE SubSeq(ZeroPad(i64_to_string(value[1]), value[2] + 1), 1,
                Len(ZeroPad(i64_to_string(value[1]), value[2] + 1)) - value[2])
         \o <<".">>
         \o SubSeq(ZeroPad(i64_to_string(value[1]), value[2] + 1),
                   Len(ZeroPad(i64_to_string(value[1]), value[2] + 1)) - value[2] + 1,
                   Len(ZeroPad(i64_to_string(value[1]), value[2] + 1)))

\* only the quote is escaped
escape_QuoteOnly(c) == IF c = "\"" THEN <<"\\", "\"">> ELSE <<c>>

\* the match on the characters of Expression::String
escape(c) ==
    CASE c = "\"" -> <<"\\", "\"">>
      [] c = "\\" -> <<"\\", "\\">>
      [] c = "\n" -> <<"\\", "n">>
      [] c = "\r" -> <<"\\", "r">>
      [] c = "\t" -> <<"\\", "t">>
      [] OTHER -> <<c>>

RECURSIVE gen_statement(_, _)
RECURSIVE gen_expression(_, _)

\* the arms of gen_statement that call add_mapping, right after write_indent
statement_mapping(stmt) ==
    IF stmt.type \in {"VariableDecl", "FunctionDecl", "Return", "If", "While", "For",
                      "TryCatch", "ClassDecl"}
    THEN <<Mapping(stmt.span)>>
    ELSE <<>>

\* for s in body { self.gen_statement(s); self.emit("\n"); }
RECURSIVE gen_body(_, _)
gen_body(body, indent) ==
    IF body = <<>> THEN <<>>
    ELSE gen_statement(Head(body), indent) \o <<<<"\n">>>> \o gen_body(Tail(body), indent)

\* a block that is never closed
gen_block_Unclosed(open, body, indent) ==
    <<open>> \o gen_body(body, indent + 1) \o write_indent(indent)

\* emit(open), where open ends in "{\n"; the body one level deeper; the
\* indentation and "}"
gen_block(open, body, indent) ==
    <<open>> \o gen_body(body, indent + 1) \o write_indent(indent) \o <<<<"}">>>>

\* the expressions of a list, with ", " between them
RECURSIVE gen_list(_, _)
gen_list(exprs, indent) ==
    IF exprs = <<>> THEN <<>>
    ELSE IF Len(exprs) = 1 THEN gen_expression(exprs[1], indent)
    ELSE gen_expression(exprs[1], indent) \o <<<<",", " ">>>> \o gen_list(Tail(exprs), indent)

\* if let Some(val) = value { self.emit(before); self.gen_expression(val); }
gen_option(before, value, indent) ==
    IF value = <<>> THEN <<>> ELSE before \o gen_expression(value[1], indent)

\* the name, the parameters and the body of a function or of a method
gen_function(name, params, body, indent) ==
    <<name, <<"(">>, join(params)>> \o gen_block(<<")", " ", "{", "\n">>, body, indent)

\* the loop over the methods of a class
RECURSIVE gen_methods(_, _)
gen_methods(methods, indent) ==
    IF methods = <<>> THEN <<>>
    ELSE (IF Head(methods).type = "FunctionDecl"
          THEN write_indent(indent)
                   \o (IF Head(methods).is_async THEN <<<<"a", "s", "y", "n", "c", " ">>>> ELSE <<>>)
                   \o gen_function(Head(methods).name, Head(methods).params,
                                   Head(methods).body, indent)
                   \o <<<<"\n">>>>
          ELSE <<>>)
         \o gen_methods(Tail(methods), indent)

\* the init clause of a for statement
gen_for_init(init, indent) ==
    IF init = <<>> THEN <<>>
    ELSE CASE init[1].type = "VariableDecl" ->
                <<IF init[1].is_const THEN <<"c", "o", "n", "s", "t", " ">> ELSE <<"l", "e", "t", " ">>, init[1].name>>
                    \o gen_option(<<<<" ", "=", " ">>>>, init[1].value, indent)
           [] init[1].type = "Expression" -> gen_expression(init[1].expression, indent)
           [] OTHER -> <<>>

\* the else branch of an if statement
gen_else(else_branch, indent) ==
    IF else_branch = <<>> THEN <<>>
    ELSE <<<<" ", "e", "l", "s", "e", " ">>>>
         \o (IF Len(else_branch[1]) = 1 /\ else_branch[1][1].type = "If"
             THEN gen_statement(else_branch[1][1], indent)
             ELSE gen_block(<<"{", "\n">>, else_branch[1], indent))

gen_statement(stmt, indent) ==
    write_indent(indent) \o statement_mapping(stmt) \o
    CASE stmt.type = "VariableDecl" ->
           <<IF stmt.is_const THEN <<"c", "o", "n", "s", "t", " ">> ELSE <<"l", "e", "t", " ">>, stmt.name>>
               \o gen_option(<<<<" ", "=", " ">>>>, stmt.value, indent) \o <<<<";">>>>
      [] stmt.type = "FunctionDecl" ->
           (IF stmt.is_async THEN <<<<"a", "s", "y", "n", "c", " ">>>> ELSE <<>>) \o <<<<"f", "u", "n", "c", "t", "i", "o", "n", " ">>>>
               \o gen_function(stmt.name, stmt.params, stmt.body, indent)
      [] stmt.type = "Return" ->
           <<<<"r", "e", "t", "u", "r", "n">>>> \o gen_option(<<<<" ">>>>, stmt.value, indent) \o <<<<";">>>>
      [] stmt.type = "If" ->
           <<<<"i", "f", " ", "(">>>> \o gen_expression(stmt.condition, indent)
               \o gen_block(<<")", " ", "{", "\n">>, stmt.then_branch, indent)
               \o gen_else(stmt.else_branch, indent)
      [] stmt.type = "While" ->
           <<<<"w", "h", "i", "l", "e", " ", "(">>>> \o gen_expression(stmt.condition, indent)
               \o gen_block(<<")", " ", "{", "\n">>, stmt.body, indent)
      [] stmt.type = "For" ->
           <<<<"f", "o", "r", " ", "(">>>> \o gen_for_init(stmt.init, indent) \o <<<<";", " ">>>>
               \o gen_option(<<>>, stmt.condition, indent) \o <<<<";", " ">>>>
               \o gen_option(<<>>, stmt.update, indent)
               \o gen_block(<<")", " ", "{", "\n">>, stmt.body, indent)
      [] stmt.type = "Break" -> <<<<"b", "r", "e", "a", "k", ";">>>>
      [] stmt.type = "Continue" -> <<<<"c", "o", "n", "t", "i", "n", "u", "e", ";">>>>
      [] stmt.type = "Debugger" -> <<<<"d", "e", "b", "u", "g", "g", "e", "r", ";">>>>
      [] stmt.type = "TryCatch" ->
           gen_block(<<"t", "r", "y", " ", "{", "\n">>, stmt.try_body, indent) \o <<<<" ", "c", "a", "t", "c", "h">>>>
               \o (IF stmt.catch_param = <<>> THEN <<>>
                   ELSE <<<<" ", "(">>, stmt.catch_param[1], <<")">>>>)
               \o gen_block(<<" ", "{", "\n">>, stmt.catch_body, indent)
      [] stmt.type = "Throw" ->
           <<<<"t", "h", "r", "o", "w", " ">>>> \o gen_expression(stmt.value, indent) \o <<<<";">>>>
      [] stmt.type = "ClassDecl" ->
           <<<<"c", "l", "a", "s", "s", " ">>, stmt.name, <<" ", "{", "\n">>>> \o gen_methods(stmt.methods, indent + 1)
               \o write_indent(indent) \o <<<<"}">>>>
      [] stmt.type = "Import" ->
           <<<<"i", "m", "p", "o", "r", "t", " ", "{", " ">>,
             join([i \in 1..Len(stmt.specifiers) |-> stmt.specifiers[i].local]),
             <<" ", "}", " ", "f", "r", "o", "m", " ", "\"">>, stmt.source, <<"\"", ";">>>>
      [] stmt.type = "Export" ->
           IF stmt.default_value # <<>>
           THEN <<<<"e", "x", "p", "o", "r", "t", " ", "d", "e", "f", "a", "u", "l", "t", " ">>>> \o gen_expression(stmt.default_value[1], indent)
                    \o <<<<";">>>>
           ELSE IF stmt.declaration # <<>>
           THEN <<<<"e", "x", "p", "o", "r", "t", " ">>>> \o gen_statement(stmt.declaration[1], 0)
           ELSE <<>>
      [] stmt.type = "Expression" ->
           gen_expression(stmt.expression, indent) \o <<<<";">>>>
      [] stmt.type = "Block" -> gen_block(<<"{", "\n">>, stmt.statements, indent)

\* the properties of an object literal, with ", " between them
RECURSIVE gen_properties(_, _)
gen_properties(properties, indent) ==
    IF properties = <<>> THEN <<>>
    ELSE <<properties[1][1], <<":", " ">>>> \o gen_expression(properties[1][2], indent)
         \o (IF Len(properties) = 1 THEN <<>>
             ELSE <<<<",", " ">>>> \o gen_properties(Tail(properties), indent))

\* emit(open), the arguments and ")"
gen_arguments(open, arguments, indent) ==
    <<open>> \o gen_list(arguments, indent) \o <<<<")">>>>

gen_expression(expr, indent) ==
    CASE expr.type = "Identifier" -> <<Mapping(expr.span), expr.name>>
      [] expr.type = "Number" -> <<number_to_string(expr.value)>>
      [] expr.type = "String" ->
           <<<<"\"">>>> \o [i \in 1..Len(expr.value) |-> escape(expr.value[i])]
               \o <<<<"\"">>>>
      [] expr.type = "Boolean" -> <<IF expr.value THEN <<"t", "r", "u", "e">> ELSE <<"f", "a", "l", "s", "e">>>>
      [] expr.type = "Null" -> <<<<"n", "u", "l", "l">>>>
      [] expr.type = "Undefined" -> <<<<"u", "n", "d", "e", "f", "i", "n", "e", "d">>>>
      [] expr.type = "This" -> <<<<"t", "h", "i", "s">>>>
      [] expr.type = "Array" ->
           <<<<"[">>>> \o gen_list(expr.elements, indent) \o <<<<"]">>>>
      [] expr.type = "Object" ->
           <<<<"{", " ">>>> \o gen_properties(expr.properties, indent) \o <<<<" ", "}">>>>
      [] expr.type = "Binary" ->
           <<<<"(">>>> \o gen_expression(expr.left, indent)
               \o <<<<" ">>, BinaryOp_to_js(expr.operator), <<" ">>>>
               \o gen_expression(expr.right, indent) \o <<<<")">>>>
      [] expr.type = "Unary" ->
           <<UnaryOp_to_js(expr.operator)>> \o gen_expression(expr.operand, indent)
      [] expr.type = "Assignment" ->
           gen_expression(expr.target, indent) \o <<<<" ", "=", " ">>>>
               \o gen_expression(expr.value, indent)
      [] expr.type = "Call" ->
           gen_expression(expr.callee, indent)
               \o gen_arguments(<<"(">>, expr.arguments, indent)
      [] expr.type = "Member" ->
           gen_expression(expr.object, indent)
               \o (IF expr.computed
                   THEN <<<<"[">>>> \o gen_expression(expr.property, indent) \o <<<<"]">>>>
                   ELSE <<<<".">>>> \o gen_expression(expr.property, indent))
      [] expr.type = "New" ->
           <<<<"n", "e", "w", " ">>>> \o gen_expression(expr.callee, indent)
               \o gen_arguments(<<"(">>, expr.arguments, indent)
      [] expr.type = "ArrowFunction" ->
           <<<<"(">>, join(expr.params), <<")", " ", "=", ">", " ">>>>
               \o (IF expr.body.type = "Expression"
                   THEN gen_expression(expr.body.expression, indent)
                   ELSE gen_block(<<"{", "\n">>, expr.body.statements, indent))
      [] expr.type = "Await" ->
           <<<<"a", "w", "a", "i", "t", " ">>>> \o gen_expression(expr.argument, indent)
      [] expr.type = "Ternary" ->
           <<<<"(">>>> \o gen_expression(expr.condition, indent) \o <<<<" ", "?", " ">>>>
               \o gen_expression(expr.consequent, indent) \o <<<<" ", ":", " ">>>>
               \o gen_expression(expr.alternate, indent) \o <<<<")">>>>
      [] expr.type = "ConsoleLog" ->
           gen_arguments(<<"c", "o", "n", "s", "o", "l", "e", ".", "l", "o", "g", "(">>, expr.arguments, indent)
      [] expr.type = "ConsoleWarn" ->
           gen_arguments(<<"c", "o", "n", "s", "o", "l", "e", ".", "w", "a", "r", "n", "(">>, expr.arguments, indent)
      [] expr.type = "ConsoleError" ->
           gen_arguments(<<"c", "o", "n", "s", "o", "l", "e", ".", "e", "r", "r", "o", "r", "(">>, expr.arguments, indent)
      [] expr.type = "TypeOf" ->
           <<<<"t", "y", "p", "e", "o", "f", " ">>>> \o gen_expression(expr.operand, indent)
      [] expr.type = "Delete" ->
           <<<<"d", "e", "l", "e", "t", "e", " ">>>> \o gen_expression(expr.operand, indent)

\* CodeGen::generate: the output String
generate(prog) == Text(gen_body(prog.statements, 0))

(***************************************************************************)
(* sourcemap.rs: the VLQ encoding.  An i64 that may pass 2^31 - 1 is kept  *)
(* as the pair of its low five bits and the bits above them.               *)
(***************************************************************************)
\* const BASE64_CHARS
BASE64_CHARS == <<"A", "B", "C", "D", "E", "F", "G", "H", "I", "J", "K", "L", "M", "N", "O", "P", "Q", "R", "S", "T", "U", "V", "W", "X", "Y", "Z", "a", "b", "c", "d", "e", "f", "g", "h", "i", "j", "k", "l", "m", "n", "o", "p", "q", "r", "s", "t", "u", "v", "w", "x", "y", "z", "0", "1", "2", "3", "4", "5", "6", "7", "8", "9", "+", "/">>

\* const VLQ_BASE_SHIFT
VLQ_BASE_SHIFT == 5

\* const VLQ_BASE: 1 << VLQ_BASE_SHIFT
VLQ_BASE == 2 ^ VLQ_BASE_SHIFT

\* const VLQ_BASE_MASK
VLQ_BASE_MASK == VLQ_BASE - 1

\* const VLQ_CONTINUATION_BIT
VLQ_CONTINUATION_BIT == VLQ_BASE

\* the i64 whose bits above the low five are high and whose low five are low
Wide(high, low) == [high |-> high, low |-> low]

\* if value < 0 { ((-value) << 1) + 1 } else { value << 1 }
vlq_start(value) ==
    IF value < 0
    THEN Wide((0 - value) \div (VLQ_BASE \div 2),
              ((0 - value) % (VLQ_BASE \div 2)) * 2 + 1)
    ELSE Wide(value \div (VLQ_BASE \div 2), (value % (VLQ_BASE \div 2)) * 2)

\* vlq >>= VLQ_BASE_SHIFT
vlq_shift(w) == Wide(w.high \div VLQ_BASE, w.high % VLQ_BASE)

\* vlq > 0, of a value that is never negative
vlq_positive(w) == w.high > 0 \/ w.low > 0

\* a digit that never gets the continuation bit
vlq_digit_NoContinuation(w) == w.low

\* let mut digit = vlq & VLQ_BASE_MASK; if the shifted vlq > 0
\* { digit |= VLQ_CONTINUATION_BIT }
vlq_digit(w) ==
    IF vlq_positive(vlq_shift(w)) THEN w.low + VLQ_CONTINUATION_BIT ELSE w.low

\* the loop of vlq_encode, from the value vlq holds and the digits pushed
RECURSIVE vlq_loop(_, _)
vlq_loop(w, encoded) ==
    IF vlq_positive(vlq_shift(w))
    THEN vlq_loop(vlq_shift(w), Append(encoded, BASE64_CHARS[vlq_digit(w) + 1]))
    ELSE Append(encoded, BASE64_CHARS[vlq_digit(w) + 1])

vlq_encode(value) == vlq_loop(vlq_start(value), <<>>)

\* no vlq_encode call is under way
NoVlq == [value |-> 0, vlq |-> Wide(0, 0), encoded |-> <<>>, pc |-> "idle"]

(***************************************************************************)
(* sourcemap.rs: SourceMapBuilder.  Of its fields, prev_gen_col,           *)
(* prev_src_line and prev_src_col are never read and are left out.         *)
(***************************************************************************)
\* SourceMapBuilder::new()
SourceMapBuilderNew ==
    [segments |-> <<<<>>>>, gen_line |-> 0, gen_col |-> 0, names |-> <<>>]

\* while self.segments.len() <= gen_line { self.segments.push(vec![]); }
RECURSIVE ensure_lines(_, _)
ensure_lines(segments, gen_line) ==
    IF Len(segments) <= gen_line THEN ensure_lines(Append(segments, <<>>), gen_line)
    ELSE segments

\* self.segments[gen_line].push(segment), after the lines are ensured
push_segment(segments, gen_line, segment) ==
    [ensure_lines(segments, gen_line) EXCEPT ![gen_line + 1] = Append(@, segment)]

\* SourceMapBuilder::add_mapping
add_mapping(b, gen_line, gen_col, src_line, src_col) ==
    [b EXCEPT !.segments =
        push_segment(b.segments, gen_line,
                     [gen_col |-> gen_col, src_line |-> src_line,
                      src_col |-> src_col, name_idx |-> <<>>])]

\* self.names.iter().position(|n| n == name), or the place the name is pushed to
name_position(names, name) ==
    IF \E i \in 1..Len(names) : names[i] = name
    THEN (CHOOSE i \in 1..Len(names) :
              names[i] = name /\ \A j \in 1..(i - 1) : names[j] # name) - 1
    ELSE Len(names)

\* SourceMapBuilder::add_named_mapping
add_named_mapping(b, gen_line, gen_col, src_line, src_col, name) ==
    [b EXCEPT !.names = IF \E i \in 1..Len(b.names) : b.names[i] = name THEN @
                        ELSE Append(@, name),
              !.segments =
                  push_segment(b.segments, gen_line,
                               [gen_col |-> gen_col, src_line |-> src_line,
                                src_col |-> src_col,
                                name_idx |-> <<name_position(b.names, name)>>])]

\* SourceMapBuilder::new_line
new_line(b) == [b EXCEPT !.gen_line = @ + 1, !.gen_col = 0]

\* the locals prev_gen_col, prev_src_line, prev_src_col and prev_name of
\* encode_mappings, all 0 at first
PrevNew == [gen_col |-> 0, src_line |-> 0, src_col |-> 0, name |-> 0]

\* a line that resets every local
line_start_ResetsAll(prev) == PrevNew

\* prev_gen_col = 0; // Reset column for each line
line_start(prev) == [prev EXCEPT !.gen_col = 0]

\* the locals after a segment
after_segment(segment, prev) ==
    [gen_col |-> segment.gen_col, src_line |-> segment.src_line,
     src_col |-> segment.src_col,
     name |-> IF segment.name_idx # <<>> THEN segment.name_idx[1] ELSE prev.name]

\* the fields pushed for one segment
encode_segment(segment, prev) ==
    vlq_encode(segment.gen_col - prev.gen_col)
        \o vlq_encode(0)
        \o vlq_encode(segment.src_line - prev.src_line)
        \o vlq_encode(segment.src_col - prev.src_col)
        \o (IF segment.name_idx # <<>>
            THEN vlq_encode(segment.name_idx[1] - prev.name) ELSE <<>>)

\* the inner loop, from the segment at seg_idx (counted from 1)
RECURSIVE encode_line(_, _, _)
encode_line(line_segments, seg_idx, prev) ==
    IF seg_idx > Len(line_segments) THEN <<>>
    ELSE (IF seg_idx > 1 THEN <<",">> ELSE <<>>)
         \o encode_segment(line_segments[seg_idx], prev)
         \o encode_line(line_segments, seg_idx + 1,
                        after_segment(line_segments[seg_idx], prev))

\* the locals after the inner loop
RECURSIVE after_line(_, _, _)
after_line(line_segments, seg_idx, prev) ==
    IF seg_idx > Len(line_segments) THEN prev
    ELSE after_line(line_segments, seg_idx + 1,
                    after_segment(line_segments[seg_idx], prev))

\* the outer loop, from the line at line_idx (counted from 1)
RECURSIVE encode_lines(_, _, _)
encode_lines(segments, line_idx, prev) ==
    IF line_idx > Len(segments) THEN <<>>
    ELSE (IF line_idx > 1 THEN <<";">> ELSE <<>>)
         \o encode_line(segments[line_idx], 1, line_start(prev))
         \o encode_lines(segments, line_idx + 1,
                         after_line(segments[line_idx], 1, line_start(prev)))

\* SourceMapBuilder::encode_mappings
encode_mappings(b) == encode_lines(b.segments, 1, PrevNew)

\* SourceMapBuilder::build(source_file), source_file an Option
build(b, source_file) ==
    [version |-> 3,
     sources |-> <<IF source_file = <<>> THEN <<"i", "n", "p", "u", "t", ".", "f", "r", "a", "t", "m">> ELSE source_file[1]>>,
     names |-> b.names,
     mappings |-> encode_mappings(b)]

\* no builder has been made
NoBuilder == [segments |-> <<>>, gen_line |-> 0, gen_col |-> 0, names |-> <<>>]

\* no source map has been built
NoSourceMap == [version |-> 0, sources |-> <<>>, names |-> <<>>, mappings |-> <<>>]

(***************************************************************************)
(* codegen/mod.rs: the CodeGen struct.  gen_statement and gen_expression   *)
(* give the calls of emit and add_mapping in order; run_calls makes them   *)
(* on the struct.  The field output is Text of the emitted strings; the    *)
(* field indent is followed by indent_after.                               *)
(***************************************************************************)
\* CodeGen::new(source_map), enabled being the argument
CodeGenNew(enabled) ==
    [indent |-> 0, source_map_enabled |-> enabled,
     source_map_builder |-> SourceMapBuilderNew,
     current_line |-> 0, current_col |-> 0]

\* a loop body that leaves current_col as it is at a line feed
emit_char_KeepsColumn(cg, c) ==
    IF c = "\n"
    THEN [cg EXCEPT !.current_line = @ + 1,
                    !.source_map_builder =
                        IF cg.source_map_enabled THEN new_line(@) ELSE @]
    ELSE [cg EXCEPT !.current_col = @ + 1]

\* the body of the loop of CodeGen::emit, for the character c
emit_char(cg, c) ==
    IF c = "\n"
    THEN [cg EXCEPT !.current_line = @ + 1, !.current_col = 0,
                    !.source_map_builder =
                        IF cg.source_map_enabled THEN new_line(@) ELSE @]
    ELSE [cg EXCEPT !.current_col = @ + 1]

\* CodeGen::emit, on the positions and the builder
RECURSIVE emit(_, _)
emit(cg, s) == IF s = <<>> THEN cg ELSE emit(emit_char(cg, Head(s)), Tail(s))

\* usize::saturating_sub
saturating_sub(n, k) == IF n >= k THEN n - k ELSE 0

\* CodeGen::add_mapping
CodeGen_add_mapping(cg, src_line, src_col) ==
    IF cg.source_map_enabled
    THEN [cg EXCEPT !.source_map_builder =
             add_mapping(@, cg.current_line, cg.current_col,
                         saturating_sub(src_line, 1), saturating_sub(src_col, 1))]
    ELSE cg

\* one call of emit or of add_mapping
run_call(cg, call) ==
    IF IsMapping(call)
    THEN CodeGen_add_mapping(cg, call[2].line, call[2].column)
    ELSE emit(cg, call)

\* the calls of emit and add_mapping, made in order: the first half, then
\* the second
RECURSIVE run_calls(_, _)
run_calls(cg, calls) ==
    IF calls = <<>> THEN cg
    ELSE IF Len(calls) = 1 THEN run_call(cg, calls[1])
    ELSE CHOOSE done \in
             {run_calls(half, SubSeq(calls, Len(calls) \div 2 + 1, Len(calls))) :
                  half \in {run_calls(cg, SubSeq(calls, 1, Len(calls) \div 2))}} : TRUE

\* CodeGen::get_source_map
get_source_map(cg) == build(cg.source_map_builder, <<>>)

\* no CodeGen has been made
NoCodeGen ==
    [indent |-> 0, source_map_enabled |-> FALSE, source_map_builder |-> NoBuilder,
     current_line |-> 0, current_col |-> 0]

(***************************************************************************)
(* errors.rs: CompileError, its Display and the messages in Napoletano.    *)
(***************************************************************************)
\* str::contains
Contains(text, pattern) ==
    \E i \in 1..(Len(text) - Len(pattern) + 1) :
        SubSeq(text, i, i + Len(pattern) - 1) = pattern

\* #[error("...")] of the three variants, as format!("{}", error) writes it
CompileError_fmt(error) ==
    IF error.kind \in {"LexerError", "ParseError"}
    THEN <<"R", "i", "g", "a", " ">> \o i64_to_string(error.line) \o <<",", " ", "c", "o", "l", "o", "n", "n", "a", " ">>
             \o i64_to_string(error.column) \o <<":", " ">> \o error.message
    ELSE <<"E", "r", "r", "o", "r", "e", " ", "i", "n", "t", "e", "r", "n", "o", ":", " ">> \o error.message

\* the patterns of napoletanize_error and what it returns for each, in order
NapoletanoTable ==
    <<<<<<"A", "s", "p", "e", "t", "t", "a", "v", "o", " ", "'", "}", "'">>, <<"U", "e^", ",", " ", "h", "a", "i", " ", "a", "p", "e", "r", "t", "o", " ", "'", "n", "a", " ", "p", "a", "r", "e", "n", "t", "e", "s", "i", " ", "g", "r", "a", "f", "f", "a", " ", "m", "a", " ", "n", "u", "n", " ", "l", "'", "h", "a", "i", " ", "c", "h", "i", "u", "s", "a", "!", " ", "M", "e", "t", "t", "e", "c", "e", " ", "'", "}", "'", "!">>>>,
      <<<<"A", "s", "p", "e", "t", "t", "a", "v", "o", " ", "'", ")", "'">>, <<"M", "a", "n", "c", "a", " ", "'", "a", " ", "p", "a", "r", "e", "n", "t", "e", "s", "i", " ", "c", "h", "i", "u", "s", "a", "!", " ", "C", "e", " ", "v", "o", "'", " ", "'", ")", "'", "!">>>>,
      <<<<"A", "s", "p", "e", "t", "t", "a", "v", "o", " ", "'", "]", "'">>, <<"E", " ", "'", "a", " ", "p", "a", "r", "e", "n", "t", "e", "s", "i", " ", "q", "u", "a", "d", "r", "a", "?", " ", "C", "h", "i", "u", "d", "e", "l", "a", " ", "c", "u", " ", "'", "]", "'", "!">>>>,
      <<<<"A", "s", "p", "e", "t", "t", "a", "v", "o", " ", "'", "=", "'">>, <<"E", " ", "a", "d", "d", "o^", " ", "s", "t", "a", " ", "l", "'", "u", "g", "u", "a", "l", "e", "?", " ", "C", "e", " ", "v", "o", "'", " ", "'", "=", "'", " ", "p", "e", " ", "a", "s", "s", "e", "g", "n", "a^", " ", "'", "o", " ", "v", "a", "l", "o", "r", "e", "!">>>>,
      <<<<"A", "s", "p", "e", "t", "t", "a", "v", "o", " ", "'", ";", "'">>, <<"M", "a", "n", "c", "a", " ", "'", "o", " ", "p", "u", "n", "t", "o", " ", "e", " ", "v", "i", "r", "g", "o", "l", "a", "!", " ", "M", "a", " ", "v", "a", " ", "b", "e", "n", "e", ",", " ", "n", "u", "n", " ", "t", "e", " ", "p", "r", "e", "o", "c", "c", "u", "p", "a^", ".">>>>,
      <<<<"A", "s", "p", "e", "t", "t", "a", "v", "o", " ", "u", "n", " ", "n", "o", "m", "e">>, <<"C", "c", "a^", " ", "c", "e", " ", "v", "o", "'", " ", "n", "u", " ", "n", "o", "m", "e", "!", " ", "C", "h", "e", " ", "c", "o", "s", "a", " ", "v", "u", "o^", " ", "c", "h", "i", "a", "m", "a^", " ", "s", "t", "a", " ", "v", "a", "r", "i", "a", "b", "i", "l", "e", "?">>>>,
      <<<<"A", "s", "p", "e", "t", "t", "a", "v", "o", " ", "u", "n", "a", " ", "s", "t", "r", "i", "n", "g", "a">>, <<"C", "c", "a^", " ", "c", "e", " ", "v", "o", "'", " ", "'", "n", "a", " ", "s", "t", "r", "i", "n", "g", "a", "!", " ", "M", "e", "t", "t", "e", "c", "e", " ", "'", "e", " ", "v", "i", "r", "g", "o", "l", "e", "t", "t", "e", "!">>>>,
      <<<<"A", "s", "p", "e", "t", "t", "a", "v", "o", " ", "'", "e^", "'">>, <<"D", "o", "p", "p", "o", " ", "'", "c", "h", "i", "s", "t", "'", " ", "c", "e", " ", "v", "o", "'", " ", "'", "e^", "'", "!", " ", "S", "c", "r", "i", "v", "i", " ", "'", "c", "h", "i", "s", "t", " ", "e^", "'", " ", "p", "e", " ", "f", "a^", " ", "'", "n", "a", " ", "c", "o", "s", "t", "a", "n", "t", "e", ".">>>>,
      <<<<"A", "s", "p", "e", "t", "t", "a", "v", "o", " ", "'", "c", "h", "e", "'">>, <<"D", "o", "p", "p", "o", " ", "'", "m", "e", "n", "t", "r", "e", "'", " ", "c", "e", " ", "v", "o", "'", " ", "'", "c", "h", "e", "'", "!", " ", "S", "c", "r", "i", "v", "i", " ", "'", "m", "e", "n", "t", "r", "e", " ", "c", "h", "e", "'", ".">>>>,
      <<<<"A", "s", "p", "e", "t", "t", "a", "v", "o", " ", "'", "o", "g", "n", "i", "'">>, <<"D", "o", "p", "p", "o", " ", "'", "p", "e", "'", " ", "c", "e", " ", "v", "o", "'", " ", "'", "o", "g", "n", "i", "'", "!", " ", "S", "c", "r", "i", "v", "i", " ", "'", "p", "e", " ", "o", "g", "n", "i", "'", ".">>>>,
      <<<<"A", "s", "p", "e", "t", "t", "a", "v", "o", " ", "'", "v", "i", "r", "'">>, <<"D", "o", "p", "p", "o", " ", "'", "m", "o", "'", " ", "c", "e", " ", "v", "o", "'", " ", "'", "v", "i", "r", "'", "!", " ", "S", "c", "r", "i", "v", "i", " ", "'", "m", "o", " ", "v", "i", "r", " ", "f", "a", "c", "c", "'", " ", "p", "e", " ", "'", "n", "a", " ", "f", "u", "n", "z", "i", "o", "n", "e", " ", "a", "s", "i", "n", "c", "r", "o", "n", "a", ".">>>>,
      <<<<"A", "s", "p", "e", "t", "t", "a", "v", "o", " ", "'", "b", "e", "l", "l", "'">>, <<"D", "o", "p", "p", "o", " ", "'", "n", "u", "'", " ", "c", "e", " ", "v", "o", "'", " ", "'", "b", "e", "l", "l", "'", "!", " ", "S", "c", "r", "i", "v", "i", " ", "'", "n", "u", " ", "b", "e", "l", "l", "'", " ", "p", "e", " ", "c", "r", "e", "a^", " ", "n", "'", "o", "g", "g", "e", "t", "t", "o", " ", "n", "u", "o", "v", "o", ".">>>>,
      <<<<"A", "s", "p", "e", "t", "t", "a", "v", "o", " ", "'", "f", "a", "m", "i", "g", "l", "i", "e", "'">>, <<"D", "o", "p", "p", "o", " ", "'", "n", "a", "'", " ", "c", "e", " ", "v", "o", "'", " ", "'", "f", "a", "m", "i", "g", "l", "i", "e", "'", "!", " ", "S", "c", "r", "i", "v", "i", " ", "'", "n", "a", " ", "f", "a", "m", "i", "g", "l", "i", "e", "'", " ", "p", "e", " ", "f", "a^", " ", "'", "n", "a", " ", "c", "l", "a", "s", "s", "e", ".">>>>,
      <<<<"A", "s", "p", "e", "t", "t", "a", "v", "o", " ", "'", "c", "o", "s", "'">>, <<"D", "o", "p", "p", "o", " ", "'", "s", "t", "u", "'", " ", "c", "e", " ", "v", "o", "'", " ", "'", "c", "o", "s", "'", "!", " ", "S", "c", "r", "i", "v", "i", " ", "'", "s", "t", "u", " ", "c", "o", "s", "'", " ", "p", "e", " ", "r", "i", "f", "e", "r", "i", "s", "c", "e", " ", "a", " ", "t", "h", "i", "s", ".">>>>,
      <<<<"A", "s", "p", "e", "t", "t", "a", "v", "o", " ", "'", "f", "o", "r", "'">>, <<"D", "o", "p", "p", "o", " ", "'", "m", "a", "n", "n", "'", " ", "c", "e", " ", "v", "o", "'", " ", "'", "f", "o", "r", "'", "!", " ", "S", "c", "r", "i", "v", "i", " ", "'", "m", "a", "n", "n", " ", "f", "o", "r", "'", " ", "p", "e", " ", "e", "s", "p", "o", "r", "t", "a^", ".">>>>,
      <<<<"A", "s", "p", "e", "t", "t", "a", "v", "o", " ", "'", "d", "i^", "'">>, <<"D", "o", "p", "p", "o", " ", "'", "s", "t", "a", "m", "m", " ", "a", "'", " ", "c", "e", " ", "v", "o", "'", " ", "'", "d", "i^", "'", "!", " ", "S", "c", "r", "i", "v", "i", " ", "'", "s", "t", "a", "m", "m", " ", "a", " ", "d", "i^", "'", " ", "p", "e", " ", "s", "t", "a", "m", "p", "a^", ".">>>>,
      <<<<"e", "x", "p", "r", "e", "s", "s", "i", "o", "n">>, <<"M", "a", " ", "c", "h", "e", " ", "s", "t", "a", "j", "e", " ", "s", "c", "r", "i", "v", "e", "n", "n", "?", "!", " ", "C", "c", "a^", " ", "c", "e", " ", "v", "o", "'", " ", "'", "n", "a", " ", "e", "s", "p", "r", "e", "s", "s", "i", "o", "n", "e", "!">>>>,
      <<<<"e", "s", "p", "r", "e", "s", "s", "i", "o", "n", "e">>, <<"M", "a", " ", "c", "h", "e", " ", "s", "t", "a", "j", "e", " ", "s", "c", "r", "i", "v", "e", "n", "n", "?", "!", " ", "C", "c", "a^", " ", "c", "e", " ", "v", "o", "'", " ", "'", "n", "a", " ", "e", "s", "p", "r", "e", "s", "s", "i", "o", "n", "e", "!">>>>>>

\* the chain of ifs of napoletanize_error from pattern k on, and its default
RECURSIVE napoletanize_from(_, _)
napoletanize_from(message, k) ==
    IF k > Len(NapoletanoTable) THEN <<"U", "e^", ",", " ", "c", "'", "e^", " ", "n", "u", " ", "p", "r", "o", "b", "l", "e", "m", "a", ":", " ">> \o message
    ELSE IF Contains(message, NapoletanoTable[k][1]) THEN NapoletanoTable[k][2]
    ELSE napoletanize_from(message, k + 1)

napoletanize_error(message) == napoletanize_from(message, 1)

\* no error is being reported
NoReport == [error |-> <<>>, text |-> <<>>, napoletano |-> <<>>]

(***************************************************************************)
(* lexer/token.rs: Span::merge and Span::default.                          *)
(***************************************************************************)
\* impl Default for Span
SpanDefault == SpanNew(0, 0, 1, 1)

Min(m, n) == IF m <= n THEN m ELSE n

Max(m, n) == IF m >= n THEN m ELSE n

\* Span::merge(&self, other)
merge(self, other) ==
    SpanNew(Min(self.start, other.start), Max(self.end, other.end),
            Min(self.line, other.line),
            IF self.line <= other.line THEN self.column ELSE other.column)

\* no span has been merged
NoSpans == [self |-> SpanDefault, other |-> SpanDefault, merged |-> <<>>]

(***************************************************************************)
(* Source texts.                                                           *)
(***************************************************************************)
SeqsUpTo(S, n) == UNION {[1..k -> S] : k \in 0..n}

LexAlphabet == {" ", "\n", "/", "*", "\"", "\\", "x", "1", "@", "e^"}

(***************************************************************************)
(* The lexer alone: one step of SpecLex is one iteration of the loop of    *)
(* Lexer::tokenize (lexer/mod.rs:133-140).                                 *)
(***************************************************************************)
\* Lexer::new(source), nothing else built yet
PipelineNew ==
    /\ lexer = LexerNew(source)
    /\ tokens = <<>>
    /\ pc = "lex"
    /\ parser = ParserNew(<<>>)
    /\ statements = <<>>
    /\ errors = <<>>
    /\ result = NoResult
    /\ program = NoResult
    /\ output = <<>>
    /\ codegen = NoCodeGen

\* the pipeline at its start, and nothing under way beside it
PipelineStart ==
    /\ PipelineNew
    /\ vlq = NoVlq
    /\ builder = NoBuilder
    /\ source_map = NoSourceMap
    /\ report = NoReport
    /\ spans = NoSpans

InitLex ==
    /\ source \in SeqsUpTo(LexAlphabet, MaxSrcLen)
    /\ PipelineStart

TokenizeStep ==
    /\ pc = "lex"
    /\ LET r == next_token(lexer)
       IN  /\ lexer' = r.lx
           /\ tokens' = Append(tokens, r.tok)
           /\ pc' = IF r.tok.kind = "Eof" THEN "lexed" ELSE "lex"
    /\ UNCHANGED <<source, parser, statements, errors, result, program, output,
                   codegen, aside>>

NextLex == TokenizeStep

SpecLex == InitLex /\ [][NextLex]_vars


(***************************************************************************)
(* Properties of the lexer (SpecLex).                                      *)
(***************************************************************************)
\* the characters some arm of next_token other than the catch-all takes, and
\* the ones skip_whitespace_and_comments consumes
Recognised(c) ==
    \/ \E p \in SinglePunct : p[1] = c
    \/ c \in {"+", "-", "*", "/", "=", "!", "<", ">", "\"", "'", "\n"}
    \/ c \in {" ", "\t", "\r"}
    \/ c \in AsciiDigits \/ c \in Letters \/ c = "_"

\* the text of src between character indexes i+1 and j, and its byte offsets
Prefix(s, i) == SubSeq(s, 1, i)

CountNewlines(s) == Cardinality({i \in 1..Len(s) : s[i] = "\n"})

\* a string literal's text is closed when its last character is its opening
\* quote and that quote is not escaped
RECURSIVE ClosesAt(_, _, _)
ClosesAt(s, i, quote) ==
    \* reading s from index i inside a literal opened by quote: does the
    \* literal close exactly at the last character of s?
    IF i > Len(s) THEN FALSE
    ELSE IF s[i] = quote THEN i = Len(s)
    ELSE IF s[i] = "\\" THEN ClosesAt(s, i + 2, quote)
    ELSE ClosesAt(s, i + 1, quote)

\* C1: tokenize terminates and never fails: the lexer stays inside the source
\* on a character boundary, it has made at most one token per character read
\* (so the loop ends), no token before the last is Eof, the token list of a
\* finished run ends in the only Eof with all input consumed, and a token that
\* starts at an unrecognised character, or at a quote that is never closed, is
\* an Invalid token (and only such tokens are Invalid).
C1_LexerTotality ==
    /\ lexer.idx <= Len(source)
    /\ lexer.position = ByteLen(Prefix(source, lexer.idx))
    /\ Len(tokens) <= lexer.idx + 1
    /\ \A k \in 1..Len(tokens) :
          tokens[k].kind = "Eof" <=> (pc = "lexed" /\ k = Len(tokens))
    /\ pc = "lexed" =>
          /\ tokens # <<>>
          /\ tokens[Len(tokens)].span.start = ByteLen(source)
          /\ lexer.idx = Len(source)
    /\ pc = "lex" => Len(tokens) <= lexer.idx
    /\ \A k \in 1..Len(tokens) :
          LET t == tokens[k]
          IN  t.kind # "Eof" =>
                /\ t.literal # <<>>
                /\ ~Recognised(t.literal[1]) =>
                      t.kind = "Invalid" /\ t.value = <<t.literal[1]>>
                         /\ Len(t.literal) = 1
                /\ (t.literal[1] \in {"\"", "'"}
                       /\ ~ClosesAt(t.literal, 2, t.literal[1])) =>
                      t.kind = "Invalid" /\ t.value = UnterminatedString
                         /\ t.span.end = ByteLen(source)
                /\ t.kind = "Invalid" =>
                      \/ ~Recognised(t.literal[1])
                      \/ t.literal[1] \in {"\"", "'"}
                            /\ ~ClosesAt(t.literal, 2, t.literal[1])

\* C1 witness: a finished run over a source with an unrecognised character and
\* an unterminated string, both lexed as Invalid tokens before the final Eof
C1_Witness ==
    /\ pc = "lexed"
    /\ \E j, k \in 1..Len(tokens) :
          /\ tokens[j].kind = "Invalid" /\ tokens[j].literal = <<"@">>
          /\ tokens[k].kind = "Invalid" /\ tokens[k].value = UnterminatedString
    /\ tokens[Len(tokens)].kind = "Eof"

\* text skipped between tokens: blanks, line comments up to a newline, block
\* comments up to the first "*/" after their opening (atEnd: the text runs to
\* the end of the source, where a block comment may lack its "*/")
RECURSIVE IsSkippedText(_, _)
IsSkippedText(g, atEnd) ==
    IF g = <<>> THEN TRUE
    ELSE IF g[1] \in {" ", "\t", "\r"} THEN IsSkippedText(Tail(g), atEnd)
    ELSE IF Len(g) >= 2 /\ g[1] = "/" /\ g[2] = "/"
    THEN \A i \in 1..Len(g) : g[i] # "\n"
    ELSE IF Len(g) >= 2 /\ g[1] = "/" /\ g[2] = "*"
    THEN LET closes == {i \in 3..(Len(g) - 1) : g[i] = "*" /\ g[i + 1] = "/"}
         IN  IF closes = {} THEN atEnd
             ELSE LET c == CHOOSE i \in closes : \A j \in closes : i <= j
                  IN  IsSkippedText(SubSeq(g, c + 2, Len(g)), atEnd)
    ELSE FALSE

\* the character index at which byte offset b falls, or -1 inside a character
CharAt(s, b) ==
    IF \E i \in 0..Len(s) : ByteLen(Prefix(s, i)) = b
    THEN CHOOSE i \in 0..Len(s) : ByteLen(Prefix(s, i)) = b
    ELSE -1

\* C2: every non-Eof token has end > start and its literal is the source text
\* of its span; spans of consecutive tokens strictly increase and do not
\* overlap; the text before the first token, between two tokens and (in a
\* finished run) up to the end is skipped blanks and comments only.
C2_SpansCoverSource ==
    /\ \A k \in 1..Len(tokens) :
          LET t == tokens[k]
              i == CharAt(source, t.span.start)
              j == CharAt(source, t.span.end)
              prevEnd == IF k = 1 THEN 0 ELSE tokens[k - 1].span.end
          IN  /\ i >= 0 /\ j >= i
              /\ t.literal = SubSeq(source, i + 1, j)
              /\ t.kind # "Eof" => t.span.end > t.span.start
              /\ prevEnd <= t.span.start
              /\ k > 1 => tokens[k - 1].span.start < t.span.start
              /\ IsSkippedText(SubSeq(source, CharAt(source, prevEnd) + 1, i),
                               t.kind = "Eof")
    /\ pc = "lexed" => tokens[Len(tokens)].span.end = ByteLen(source)

\* C2 witness: a finished run with two tokens separated by a comment and a
\* token holding a two-byte letter
C2_Witness ==
    /\ pc = "lexed"
    /\ \E k \in 2..Len(tokens) :
          /\ tokens[k].span.start >= tokens[k - 1].span.end + 2
          /\ source[CharAt(source, tokens[k - 1].span.end) + 1] = "/"
    /\ \E k \in 1..Len(tokens) : ByteLen(tokens[k].literal) > Len(tokens[k].literal)

\* C3: the line of every token is 1 plus the number of newline characters of
\* the source before the token's start.
C3_LineCountsNewlines ==
    \A k \in 1..Len(tokens) :
        tokens[k].span.line =
            1 + CountNewlines(Prefix(source, CharAt(source, tokens[k].span.start)))

(***************************************************************************)
(* Lexer and parser together: the source is tokenized, Parser::new takes   *)
(* the tokens, and one step is one iteration of the loop of Parser::parse  *)
(* (parser/mod.rs:34-47).  A source is a sequence of fragments separated   *)
(* by single spaces.                                                       *)
(***************************************************************************)
RECURSIVE JoinFrags(_)
JoinFrags(frags) ==
    IF frags = <<>> THEN <<>>
    ELSE IF Len(frags) = 1 THEN frags[1]
    ELSE frags[1] \o <<" ">> \o JoinFrags(Tail(frags))

FragSeqs(V, n) == {JoinFrags(fs) : fs \in SeqsUpTo(V, n)}

\* statements, whole and broken
EofFrags ==
    {<<"x">>,
     <<"@">>,
     <<"t", "i", "e", "n">>,
     <<"s", "i">>,
     <<"\n">>}

\* the end of a text: nothing, or a construct that stops where an expression
\* is still expected
EofEndings ==
    {<<>>,
     <<"(">>,
     <<"[">>,
     <<"x", " ", "(">>,
     <<"x", " ", "[">>,
     <<"x", " ", "+">>,
     <<"s", "i", " ", "(">>,
     <<"x", " ", "=", " ", "(">>}

\* texts that stop where more is expected, after statements and errors
EofSources ==
    {JoinFrags(<<body, ending>>) : body \in FragSeqs(EofFrags, MaxFrags),
                                   ending \in EofEndings}

\* block comments and string literals, closed and open
CommentFrags ==
    {<<"/", "*">>,
     <<"*", "/">>,
     <<"\"">>,
     <<"x">>,
     <<"\n">>}

\* statements with a name at every place of the grammar that takes one
NameFrags ==
    {<<"t", "i", "e", "n", " ", "x">>,
     <<"f", "a", "c", "c", " ", "f", "(", "u", ")", " ", "{", " ", "u", ".", "v", " ", "}">>,
     <<"p", "r", "u", "v", "a", "m", "m", " ", "{", " ", "}", " ", "e", " ", "s", "i", " ", "s", "c", "h", "i", "a", "t", "t", "a", " ", "(", "q", ")", " ", "{", " ", "}">>,
     <<"c", "h", "i", "a", "m", "m", " ", "{", " ", "m", " ", "}", " ", "d", "a", " ", "\"", "p", "\"">>,
     <<"x", " ", "=", " ", "{", " ", "k", ":", " ", "y", ".", "z", " ", "}">>,
     <<"n", "a", " ", "f", "a", "m", "i", "g", "l", "i", "e", " ", "C", " ", "{", " ", "f", "a", "c", "c", " ", "g", "(", "b", ")", " ", "{", " ", "}", " ", "}">>,
     <<"(", "w", ")", " ", "=", ">", " ", "w">>}

\* the places of the grammar that take a name: what stands before it and after
NamePlaces ==
    {<<<<>>, <<>>>>,
     <<<<"t", "i", "e", "n", " ">>, <<>>>>,
     <<<<"f", "a", "c", "c", " ">>, <<"(", ")", " ", "{", " ", "}">>>>,
     <<<<"f", "a", "c", "c", " ", "f", "(">>, <<")", " ", "{", " ", "}">>>>,
     <<<<"x", ".">>, <<>>>>,
     <<<<"x", " ", "=", " ", "{", " ">>, <<":", " ", "y", " ", "}">>>>}

\* every reserved spelling alone, and at each place that takes a name
KeywordSources ==
    {pl[1] \o e[1] \o pl[2] : pl \in NamePlaces, e \in KeywordTable}

ParseSources ==
    EofSources \cup FragSeqs(CommentFrags, MaxFrags)
        \cup FragSeqs(NameFrags, MaxNameFrags) \cup KeywordSources

InitParse ==
    /\ source \in ParseSources
    /\ PipelineStart

\* Parser::new(tokens)
ParserStart ==
    /\ pc = "lexed"
    /\ parser' = ParserNew(tokens)
    /\ statements' = <<>>
    /\ errors' = <<>>
    /\ pc' = "parse"
    /\ UNCHANGED <<source, lexer, tokens, result, program, output, codegen, aside>>

\* one iteration of the while loop; a recursion without end kills the process
ParseStep ==
    /\ pc = "parse"
    /\ ~is_at_end(parser)
    /\ \E st \in {parse_iteration([p |-> parser, statements |-> statements,
                                    errors |-> errors, aborted |-> FALSE])} :
          /\ parser' = st.p
          /\ statements' = st.statements
          /\ errors' = st.errors
          /\ pc' = IF st.aborted THEN "aborted" ELSE "parse"
          /\ result' = IF st.aborted THEN StackOverflow ELSE result
    /\ UNCHANGED <<source, lexer, tokens, program, output, codegen, aside>>

\* the loop is over: parse returns
ParseFinish ==
    /\ pc = "parse"
    /\ is_at_end(parser)
    /\ result' = parse_result(statements, errors)
    /\ pc' = "parsed"
    /\ UNCHANGED <<source, lexer, tokens, parser, statements, errors, program,
                   output, codegen, aside>>

NextParse == TokenizeStep \/ ParserStart \/ ParseStep \/ ParseFinish

SpecParse == InitParse /\ [][NextParse]_vars

(***************************************************************************)
(* Properties of the parser (SpecParse).                                   *)
(***************************************************************************)
\* the nodes directly below a node of the tree, statements and expressions
Children(n) ==
    CASE n.type \in {"VariableDecl", "Return"} -> n.value
      [] n.type = "FunctionDecl" -> n.body
      [] n.type = "If" ->
           <<n.condition>> \o n.then_branch
               \o (IF n.else_branch = <<>> THEN <<>> ELSE n.else_branch[1])
      [] n.type = "While" -> <<n.condition>> \o n.body
      [] n.type = "For" -> n.init \o n.condition \o n.update \o n.body
      [] n.type = "TryCatch" -> n.try_body \o n.catch_body
      [] n.type = "Throw" -> <<n.value>>
      [] n.type = "ClassDecl" -> n.methods
      [] n.type = "Export" -> n.declaration \o n.default_value
      [] n.type = "Expression" -> <<n.expression>>
      [] n.type = "Block" -> n.statements
      [] n.type = "Array" -> n.elements
      [] n.type = "Object" -> [i \in 1..Len(n.properties) |-> n.properties[i][2]]
      [] n.type = "Binary" -> <<n.left, n.right>>
      [] n.type \in {"Unary", "TypeOf", "Delete"} -> <<n.operand>>
      [] n.type = "Assignment" -> <<n.target, n.value>>
      [] n.type \in {"Call", "New"} -> <<n.callee>> \o n.arguments
      [] n.type = "Member" -> <<n.object, n.property>>
      [] n.type = "ArrowFunction" -> <<n.body>>
      [] n.type = "Await" -> <<n.argument>>
      [] n.type = "Ternary" -> <<n.condition, n.consequent, n.alternate>>
      [] n.type \in {"ConsoleLog", "ConsoleWarn", "ConsoleError"} -> n.arguments
      [] OTHER -> <<>>

Range(f) == {f[i] : i \in DOMAIN f}

\* the names a node itself holds
OwnNames(n) ==
    CASE n.type \in {"VariableDecl", "ClassDecl", "Identifier"} -> {n.name}
      [] n.type = "FunctionDecl" -> {n.name} \cup Range(n.params)
      [] n.type = "TryCatch" -> Range(n.catch_param)
      [] n.type = "Import" ->
           {sp.imported : sp \in Range(n.specifiers)}
               \cup {sp.local : sp \in Range(n.specifiers)}
      [] n.type = "Object" -> {pr[1] : pr \in Range(n.properties)}
      [] n.type = "ArrowFunction" -> Range(n.params)
      [] OTHER -> {}

RECURSIVE NamesOf(_)
NamesOf(n) == OwnNames(n) \cup UNION {NamesOf(c) : c \in Range(Children(n))}

RECURSIVE NodesOf(_)
NodesOf(n) == {n} \cup UNION {NodesOf(c) : c \in Range(Children(n))}

ProgramNames == UNION {NamesOf(st) : st \in Range(result.val.statements)}

ProgramNodes == UNION {NodesOf(st) : st \in Range(result.val.statements)}

Returned == pc = "parsed"

\* C4: for every source text, parse applied to tokenize(source) terminates and
\* returns Ok(Program) or a non-empty list of errors, each carrying a line and
\* a column; it never crashes or recurses without bound, also when the input
\* ends where an expression is still expected.
C4_ParseReturns ==
    /\ pc # "aborted"
    /\ Returned =>
         \/ result.kind = "Ok"
         \/ /\ result.kind = "Err"
            /\ result.val # <<>>
            /\ \A e \in Range(result.val) : e.span.line >= 1 /\ e.span.column >= 1

\* s holds, outside string literals and line comments, a "/*" that no "*/"
\* closes before the end of input
OpenBlockComment(s) ==
    \E i \in 1..(Len(s) - 1) :
        /\ s[i] = "/" /\ s[i + 1] = "*"
        /\ i = 1 \/ s[i - 1] # "*"
        /\ \A j \in (i + 2)..(Len(s) - 1) : ~(s[j] = "*" /\ s[j + 1] = "/")
        /\ \A j \in 1..(i - 1) : s[j] \notin {"\"", "'"}
        /\ \A j \in 1..(i - 2) : ~(s[j] = "/" /\ s[j + 1] = "/")

\* the line of the first "/*" of s
CommentLine(s) ==
    LET i == CHOOSE k \in 1..(Len(s) - 1) :
                 /\ s[k] = "/" /\ s[k + 1] = "*"
                 /\ \A j \in 1..(k - 1) : ~(s[j] = "/" /\ s[j + 1] = "*")
    IN  1 + CountNewlines(SubSeq(s, 1, i - 1))

\* C5: a source with an unterminated block comment yields a parse error on
\* the right line; it is not accepted as a valid (possibly empty) program.
C5_OpenCommentIsAnError ==
    (Returned /\ OpenBlockComment(source)) =>
        /\ result.kind = "Err"
        /\ \E e \in Range(result.val) : e.span.line = CommentLine(source)

InvalidIndexes == {k \in 1..Len(tokens) : tokens[k].kind = "Invalid"}

\* the Invalid token at k is the first offending token: the tokens before it
\* are a program without errors
FirstOffending(k) ==
    /\ k \in InvalidIndexes
    /\ k = 1 \/ parse(SubSeq(tokens, 1, k - 1) \o <<tokens[Len(tokens)]>>).kind = "Ok"

\* an unterminated string is one Invalid("Unterminated string") token from the
\* opening quote to the end of input
OpenStringIsOneToken ==
    /\ \A k \in InvalidIndexes :
          tokens[k].value = UnterminatedString =>
              /\ tokens[k].span.end = ByteLen(source)
              /\ source[CharAt(source, tokens[k].span.start) + 1] \in {"\"", "'"}
              /\ k = Len(tokens) - 1
    /\ ( /\ Cardinality({i \in 1..Len(source) : source[i] = "\""}) % 2 = 1
         /\ \A i \in 1..Len(source) : source[i] \notin {"\\", "/", "'"} )
          => tokens[Len(tokens) - 1].value = UnterminatedString

\* C6: lexical errors surface as parse errors: an unterminated string is one
\* Invalid token reaching the end of input; whenever the tokens hold an Invalid
\* token, parse returns Err, never Ok; and when the Invalid token is the first
\* offending token, the first error carries that token's span.
C6_LexicalErrorsSurface ==
    (pc \in {"parsed", "aborted"}) =>
        /\ OpenStringIsOneToken
        /\ InvalidIndexes # {} => result.kind = "Err"
        /\ \A k \in InvalidIndexes :
              (Returned /\ FirstOffending(k)) => result.val[1].span = tokens[k].span

\* where parsing resumes after a statement failed with the parser at p: one
\* token is consumed, then tokens are skipped up to the first one that starts
\* a statement or is Eof
RecoveryPoint(p) ==
    LET last == Len(p.tokens) - 1
        from == IF p.current < last THEN p.current + 1 ELSE last
    IN  CHOOSE c \in from..last :
            /\ p.tokens[c + 1].kind \in SyncKinds \cup {"Eof"}
            /\ \A b \in from..(c - 1) :
                   p.tokens[b + 1].kind \notin SyncKinds \cup {"Eof"}

\* the statement at the parser's place fails to parse
StatementFails ==
    /\ pc = "parse"
    /\ ~is_at_end(skip_newlines(parser))
    /\ parse_statement(skip_newlines(parser), NoCall).kind = "Err"

\* C8: panic-mode recovery: when a top-level statement fails, the error is
\* recorded after the earlier ones, one token is consumed, tokens are skipped
\* until the next one is chist, tien, facc, si, mentre, pe, piglie, na, chiamm,
\* mann or Eof, and parsing resumes there; once parsing is over, parse has
\* returned Err with every recorded error, in order, if a statement failed,
\* and Ok(Program) only if none failed.
C8_PanicModeRecovery ==
    /\ StatementFails =>
          LET r == parse_statement(skip_newlines(parser), NoCall)
              st == parse_iteration([p |-> parser, statements |-> statements,
                                     errors |-> errors, aborted |-> FALSE])
          IN  /\ st.errors = Append(errors, r.val)
              /\ st.statements = statements
              /\ st.p.current = RecoveryPoint(r.p)
              /\ ~st.aborted
    /\ (pc \in {"parsed", "aborted"}) =>
          /\ errors # <<>> => result = [kind |-> "Err", val |-> errors]
          /\ errors = <<>> => result.kind = "Ok"

ReservedSpellings == {e[1] : e \in KeywordTable}

IdentifierTokens == {tokens[k].value : k \in {j \in 1..Len(tokens) : tokens[j].kind = "Identifier"}}

\* C7: every reserved spelling is lexed to its keyword tag, never to
\* Identifier, and every name of a program that parse returns (variable,
\* function, class, parameter, catch parameter, import specifier, object key,
\* member property, identifier expression) is the text of an Identifier token,
\* so no reserved word.
C7_ReservedWordsAreNotNames ==
    (pc \in {"lexed", "parse", "parsed"}) =>
        /\ \A k \in 1..Len(tokens) :
              /\ \A e \in KeywordTable :
                    tokens[k].literal = e[1] => tokens[k].kind = e[2]
              /\ tokens[k].kind = "Identifier" =>
                    tokens[k].value \notin ReservedSpellings
        /\ (Returned /\ result.kind = "Ok") =>
              \A name \in ProgramNames :
                  name \in IdentifierTokens /\ name \notin ReservedSpellings

\* a program with names of several kinds was returned, from a text that also
\* holds reserved words
C7_Witness ==
    /\ Returned /\ result.kind = "Ok"
    /\ \E n \in ProgramNodes : n.type = "FunctionDecl" /\ n.params # <<>>
    /\ \E n \in ProgramNodes : n.type = "TryCatch" /\ n.catch_param # <<>>
    /\ \E n \in ProgramNodes : n.type = "Member" /\ ~n.computed
    /\ Cardinality(ProgramNames) >= 4
    /\ \E k \in 1..Len(tokens) : tokens[k].kind = "Schiatta"

(***************************************************************************)
(* codegen/mod.rs: the field indent of CodeGen.  indent_after gives the    *)
(* field after gen_statement or gen_expression has returned, from the      *)
(* field before the call; Underflow when a usize was taken below 0.        *)
(***************************************************************************)
Underflow == 0 - 1

\* self.indent += 1
indent_inc(level) == IF level = Underflow THEN Underflow ELSE level + 1

\* self.indent -= 1
indent_dec(level) == IF level = Underflow \/ level = 0 THEN Underflow ELSE level - 1

RECURSIVE indent_after(_, _)

\* gen_statement or gen_expression on each node in turn
RECURSIVE indent_after_all(_, _)
indent_after_all(nodes, level) ==
    IF nodes = <<>> THEN level
    ELSE indent_after_all(Tail(nodes), indent_after(Head(nodes), level))

\* self.indent += 1; for s in body { self.gen_statement(s); ... }
\* self.indent -= 1;
indent_after_body(body, level) ==
    indent_dec(indent_after_all(body, indent_inc(level)))

\* an else branch that leaves the indent of its body behind when it returns
\* after an else-if
indent_after_else_ReturnsInside(else_branch, level) ==
    IF else_branch = <<>> THEN level
    ELSE IF Len(else_branch[1]) = 1 /\ else_branch[1][1].type = "If"
    THEN indent_after(else_branch[1][1], indent_inc(level))
    ELSE indent_after_body(else_branch[1], level)

\* the else branch of If: an else-if is generated in place and the function
\* returns (codegen/mod.rs:114-128)
indent_after_else(else_branch, level) ==
    IF else_branch = <<>> THEN level
    ELSE IF Len(else_branch[1]) = 1 /\ else_branch[1][1].type = "If"
    THEN indent_after(else_branch[1][1], level)
    ELSE indent_after_body(else_branch[1], level)

\* the expressions generated for the init clause of For
for_init_expressions(init) ==
    IF init = <<>> THEN <<>>
    ELSE CASE init[1].type = "VariableDecl" -> init[1].value
           [] init[1].type = "Expression" -> <<init[1].expression>>
           [] OTHER -> <<>>

\* the loop over the methods of ClassDecl
RECURSIVE indent_after_methods(_, _)
indent_after_methods(methods, level) ==
    IF methods = <<>> THEN level
    ELSE indent_after_methods(Tail(methods),
             IF Head(methods).type = "FunctionDecl"
             THEN indent_after_body(Head(methods).body, level)
             ELSE level)

\* let saved = self.indent; self.indent = 0; self.gen_statement(decl);
\* self.indent = saved;
indent_after_export(declaration, level) ==
    IF level = Underflow \/ indent_after(declaration, 0) = Underflow THEN Underflow
    ELSE level

indent_after(node, level) ==
    CASE node.type \in {"FunctionDecl", "Block"} ->
           indent_after_body(IF node.type = "Block" THEN node.statements ELSE node.body,
                             level)
      [] node.type = "If" ->
           indent_after_else(node.else_branch,
               indent_after_body(node.then_branch, indent_after(node.condition, level)))
      [] node.type = "While" ->
           indent_after_body(node.body, indent_after(node.condition, level))
      [] node.type = "For" ->
           indent_after_body(node.body,
               indent_after_all(for_init_expressions(node.init) \o node.condition
                                    \o node.update, level))
      [] node.type = "TryCatch" ->
           indent_after_body(node.catch_body, indent_after_body(node.try_body, level))
      [] node.type = "ClassDecl" ->
           indent_dec(indent_after_methods(node.methods, indent_inc(level)))
      [] node.type = "Export" ->
           IF node.default_value # <<>> THEN indent_after(node.default_value[1], level)
           ELSE IF node.declaration # <<>>
           THEN indent_after_export(node.declaration[1], level)
           ELSE level
      [] node.type = "ArrowFunction" ->
           IF node.body.type = "Expression"
           THEN indent_after(node.body.expression, level)
           ELSE indent_after_body(node.body.statements, level)
      [] OTHER -> indent_after_all(Children(node), level)

(***************************************************************************)
(* The round trip: the text generated for a program that parse returned is *)
(* tokenized and parsed again (SpecEmit).                                  *)
(***************************************************************************)
\* block statements, empty and nested
BlockFrags ==
    {<<"{", " ", "}", "\n">>,
     <<"{", " ", "{", " ", "}", " ", "}", "\n">>,
     <<"{", " ", "{", " ", "}", " ", "{", " ", "{", " ", "}", " ", "}", " ", "}", "\n">>,
     <<"{", "\n", "}", "\n">>}

\* one statement of every kind
StatementFrags ==
    {<<"x", "\n">>,
     <<"{", " ", "x", " ", "}", "\n">>,
     <<"t", "i", "e", "n", " ", "x", "\n">>,
     <<"c", "h", "i", "s", "t", " ", "e^", " ", "x", " ", "=", " ", "1", "\n">>,
     <<"f", "a", "c", "c", " ", "f", "(", "u", ",", " ", "v", ")", " ", "{", " ", "p", "i", "g", "l", "i", "e", " ", "u", " ", "}", "\n">>,
     <<"m", "o", " ", "v", "i", "r", " ", "f", "a", "c", "c", " ", "f", "(", ")", " ", "{", " ", "}", "\n">>,
     <<"p", "i", "g", "l", "i", "e", "\n">>,
     <<"s", "i", " ", "(", "x", ")", " ", "{", " ", "}", " ", "s", "i", "n", "n", "o^", " ", "s", "i", " ", "(", "y", ")", " ", "{", " ", "}", " ", "s", "i", "n", "n", "o^", " ", "{", " ", "}", "\n">>,
     <<"m", "e", "n", "t", "r", "e", " ", "c", "h", "e", " ", "(", "x", ")", " ", "{", " ", "r", "o", "m", "p", "e", " ", "}", "\n">>,
     <<"p", "e", " ", "(", "t", "i", "e", "n", " ", "k", " ", "=", " ", "0", ";", " ", "k", " ", "<", " ", "2", ";", " ", "k", " ", "=", " ", "k", " ", "+", " ", "1", ")", " ", "{", " ", "s", "a", "l", "t", "a", " ", "}", "\n">>,
     <<"f", "e", "r", "m", "e", "t", "e", "\n">>,
     <<"p", "r", "u", "v", "a", "m", "m", " ", "{", " ", "}", " ", "e", " ", "s", "i", " ", "s", "c", "h", "i", "a", "t", "t", "a", " ", "(", "q", ")", " ", "{", " ", "}", "\n">>,
     <<"i", "e", "t", "t", " ", "x", "\n">>,
     <<"n", "a", " ", "f", "a", "m", "i", "g", "l", "i", "e", " ", "C", " ", "{", " ", "f", "a", "c", "c", " ", "g", "(", "u", ")", " ", "{", " ", "}", " ", "}", "\n">>,
     <<"c", "h", "i", "a", "m", "m", " ", "{", " ", "m", " ", "}", " ", "d", "a", " ", "\"", "p", "\"", "\n">>,
     <<"m", "a", "n", "n", " ", "f", "o", "r", " ", "f", "a", "c", "c", " ", "f", "(", ")", " ", "{", " ", "}", "\n">>,
     <<"m", "a", "n", "n", " ", "f", "o", "r", " ", "p", "r", "e", "d", "e", "f", "i", "n", "i", "t", " ", "x", "\n">>}

\* expression statements: operands that bind as in the tree they come from
TightFrags ==
    {<<"x", " ", "+", " ", "y", " ", "*", " ", "z", "\n">>,
     <<"(", "x", " ", "+", " ", "y", ")", " ", "*", " ", "z", "\n">>,
     <<"x", " ", "-", " ", "(", "y", " ", "-", " ", "z", ")", "\n">>,
     <<"x", " ", "*", "*", " ", "y", "\n">>,
     <<"-", "x", " ", "+", " ", "y", "\n">>,
     <<"n", "o", " ", "x", " ", "e", " ", "y", " ", "o", " ", "z", "\n">>,
     <<"x", " ", "=", "=", "=", " ", "y", "\n">>,
     <<"x", " ", "?", " ", "y", " ", ":", " ", "z", "\n">>,
     <<"x", " ", "=", " ", "y", " ", "=", " ", "z", "\n">>,
     <<"f", "(", "x", ",", " ", "y", ")", ".", "k", "[", "1", "]", "\n">>,
     <<"x", " ", "=", " ", "[", "y", ",", " ", "\"", "s", "\\", "n", "\"", ",", " ", "1", ".", "5", "]", "\n">>,
     <<"x", " ", "=", " ", "{", " ", "k", ":", " ", "y", ",", " ", "m", ":", " ", "o", "v", "e", "r", "o", " ", "}", "\n">>,
     <<"n", "i", "s", "c", "i", "u", "n", " ", "=", "=", " ", "b", "o", "h", "\n">>,
     <<"s", "t", "u", " ", "c", "o", "s", ".", "k", "\n">>,
     <<"n", "u", " ", "b", "e", "l", "l", " ", "C", "(", "x", ")", "\n">>,
     <<"a", "s", "p", "e", "t", "t", " ", "f", "(", ")", "\n">>,
     <<"l", "e", "v", "a", " ", "x", ".", "k", "\n">>,
     <<"s", "t", "a", "m", "m", " ", "a", " ", "d", "i^", " ", "(", "x", ",", " ", "s", "f", "o^", "l", "s", ")", "\n">>,
     <<"(", "w", ")", " ", "=", ">", " ", "w", " ", "+", " ", "1", "\n">>}

\* expression statements: an assignment, a negation, an arrow function or a
\* new-expression as the operand of a node that binds tighter
LooseFrags ==
    {<<"(", "x", " ", "=", " ", "y", ")", " ", "+", " ", "z", "\n">>,
     <<"(", "x", " ", "=", " ", "y", ")", " ", "*", " ", "z", " ", "+", " ", "1", "\n">>,
     <<"-", "(", "x", " ", "=", " ", "y", ")", "\n">>,
     <<"a", "s", "p", "e", "t", "t", " ", "(", "x", " ", "=", " ", "y", ")", "\n">>,
     <<"l", "e", "v", "a", " ", "(", "x", " ", "=", " ", "y", ")", "\n">>,
     <<"(", "x", " ", "=", " ", "y", ")", "(", "z", ")", "\n">>,
     <<"(", "x", " ", "=", " ", "y", ")", ".", "k", "\n">>,
     <<"(", "-", "x", ")", ".", "k", "\n">>,
     <<"(", "-", "x", ")", "(", "y", ")", "\n">>,
     <<"(", "(", "w", ")", " ", "=", ">", " ", "w", ")", "(", "y", ")", "\n">>,
     <<"(", "(", "w", ")", " ", "=", ">", " ", "w", ")", ".", "k", "\n">>,
     <<"(", "(", "w", ")", " ", "=", ">", " ", "w", ")", " ", "+", " ", "1", "\n">>,
     <<"(", "n", "u", " ", "b", "e", "l", "l", " ", "C", ")", ".", "k", "\n">>,
     <<"(", "n", "u", " ", "b", "e", "l", "l", " ", "C", ")", "(", "x", ")", "\n">>}

\* if statements inside a block and inside a function
NestedFrags ==
    {<<"{", " ", "s", "i", " ", "(", "x", ")", " ", "{", " ", "}", " ", "s", "i", "n", "n", "o^", " ", "s", "i", " ", "(", "y", ")", " ", "{", " ", "}", " ", "}", "\n">>,
     <<"{", " ", "s", "i", " ", "(", "x", ")", " ", "{", " ", "}", " ", "s", "i", "n", "n", "o^", " ", "{", " ", "y", " ", "}", " ", "}", "\n">>,
     <<"f", "a", "c", "c", " ", "f", "(", ")", " ", "{", " ", "s", "i", " ", "(", "x", ")", " ", "{", " ", "}", " ", "s", "i", "n", "n", "o^", " ", "s", "i", " ", "(", "y", ")", " ", "{", " ", "}", " ", "s", "i", "n", "n", "o^", " ", "s", "i", " ", "(", "z", ")", " ", "{", " ", "}", " ", "s", "i", "n", "n", "o^", " ", "{", " ", "}", " ", "}", "\n">>}

EmitSources ==
    {Text(fs) : fs \in SeqsUpTo(BlockFrags, MaxFrags)}
        \cup StatementFrags \cup TightFrags \cup LooseFrags \cup NestedFrags

InitEmit ==
    /\ source \in EmitSources
    /\ PipelineStart

\* CodeGen::new(source_map).generate(&program) for the program parse
\* returned, and Lexer::new on the generated text
Generate ==
    /\ pc = "parsed"
    /\ result.kind = "Ok"
    /\ program = NoResult
    /\ program' = result
    /\ output' = generate(result.val)
    /\ \E source_map_enabled \in BOOLEAN :
          codegen' = [run_calls(CodeGenNew(source_map_enabled),
                                gen_body(result.val.statements, 0))
                          EXCEPT !.indent = indent_after_all(result.val.statements, @)]
    /\ lexer' = LexerNew(generate(result.val))
    /\ tokens' = <<>>
    /\ parser' = ParserNew(<<>>)
    /\ statements' = <<>>
    /\ errors' = <<>>
    /\ result' = NoResult
    /\ pc' = "lex"
    /\ UNCHANGED <<source, aside>>

NextEmit == TokenizeStep \/ ParserStart \/ ParseStep \/ ParseFinish \/ Generate

SpecEmit == InitEmit /\ [][NextEmit]_vars

(***************************************************************************)
(* Properties of the round trip (SpecEmit).                                *)
(***************************************************************************)
\* what a node holds besides its span and the nodes below it
Attributes(n) ==
    CASE n.type = "VariableDecl" -> <<n.name, n.is_const, Len(n.value)>>
      [] n.type = "FunctionDecl" -> <<n.name, n.params, n.is_async>>
      [] n.type = "Return" -> <<Len(n.value)>>
      [] n.type = "If" -> <<Len(n.then_branch), Len(n.else_branch)>>
      [] n.type = "For" -> <<Len(n.init), Len(n.condition), Len(n.update)>>
      [] n.type = "TryCatch" -> <<n.catch_param, Len(n.try_body)>>
      [] n.type = "ClassDecl" -> <<n.name>>
      [] n.type = "Import" -> <<n.specifiers, n.source>>
      [] n.type = "Export" -> <<Len(n.declaration)>>
      [] n.type \in {"Identifier"} -> <<n.name>>
      [] n.type \in {"Number", "String", "Boolean"} -> <<n.value>>
      [] n.type = "Object" -> [i \in 1..Len(n.properties) |-> n.properties[i][1]]
      [] n.type \in {"Binary", "Unary"} -> <<n.operator>>
      [] n.type = "Member" -> <<n.computed>>
      [] n.type = "ArrowFunction" -> <<n.params>>
      [] OTHER -> <<>>

\* structural equality of two nodes, spans left aside
RECURSIVE SameTree(_, _)
SameTree(m, n) ==
    /\ m.type = n.type
    /\ Attributes(m) = Attributes(n)
    /\ Len(Children(m)) = Len(Children(n))
    /\ \A i \in 1..Len(Children(m)) : SameTree(Children(m)[i], Children(n)[i])

SameProgram(P, Q) ==
    /\ Len(P.statements) = Len(Q.statements)
    /\ \A i \in 1..Len(P.statements) : SameTree(P.statements[i], Q.statements[i])

\* the generated text has been tokenized and parsed, or the process died
RoundTripDone == program # NoResult /\ pc \in {"parsed", "aborted"}

RoundTripHolds == result.kind = "Ok" /\ SameProgram(result.val, program.val)

RECURSIVE OnlyBlocks(_)
OnlyBlocks(stmt) ==
    /\ stmt.type = "Block"
    /\ \A i \in 1..Len(stmt.statements) : OnlyBlocks(stmt.statements[i])

SpellBack(piece) ==
    CASE piece = <<"&", "&">> -> <<"e">>
      [] piece = <<"|", "|">> -> <<"o">>
      [] piece = <<"t", "r", "u", "e">> -> <<"o", "v", "e", "r", "o">>
      [] piece = <<"f", "a", "l", "s", "e">> -> <<"s", "f", "o^", "l", "s">>
      [] piece = <<"n", "u", "l", "l">> -> <<"n", "i", "s", "c", "i", "u", "n">>
      [] piece = <<"u", "n", "d", "e", "f", "i", "n", "e", "d">> -> <<"b", "o", "h">>
      [] piece = <<"t", "h", "i", "s">> -> <<"s", "t", "u", " ", "c", "o", "s">>
      [] piece = <<"n", "e", "w", " ">> -> <<"n", "u", " ", "b", "e", "l", "l", " ">>
      [] piece = <<"a", "w", "a", "i", "t", " ">> -> <<"a", "s", "p", "e", "t", "t", " ">>
      [] piece = <<"d", "e", "l", "e", "t", "e", " ">> -> <<"l", "e", "v", "a", " ">>
      [] piece = <<"c", "o", "n", "s", "o", "l", "e", ".", "l", "o", "g", "(">> -> <<"s", "t", "a", "m", "m", " ", "a", " ", "d", "i^", " ", "(">>
      [] piece = <<"c", "o", "n", "s", "o", "l", "e", ".", "w", "a", "r", "n", "(">> -> <<"a", "v", "v", "i", "s", " ", "a", " ", "d", "i^", " ", "(">>
      [] piece = <<"c", "o", "n", "s", "o", "l", "e", ".", "e", "r", "r", "o", "r", "(">> -> <<"s", "c", "r", "i", "v", "e", " ", "a", " ", "d", "i^", " ", "(">>
      [] OTHER -> piece

\* the emitted text of an expression, operator spellings mapped back
EmittedText(expr) ==
    Text([i \in 1..Len(gen_expression(expr, 0)) |->
             SpellBack(gen_expression(expr, 0)[i])])

\* the emitted text read with the grammar of parse_expression
Reread(expr) == parse_expression(ParserNew(tokenize(EmittedText(expr))), NoCall)

\* the whole text was read and the tree is the one that was emitted
RereadIs(r, expr) ==
    /\ r.kind = "Ok"
    /\ is_at_end(r.p)
    /\ SameTree(r.val, expr)

\* '(' L ' ' op ' ' R ')' for a Binary node, the operator and the operand
\* with no parentheses for a Unary node
EmittedAsStated(n) ==
    CASE n.type = "Binary" ->
           gen_expression(n, 0) =
               <<<<"(">>>> \o gen_expression(n.left, 0)
                   \o <<<<" ">>, BinaryOp_to_js(n.operator), <<" ">>>>
                   \o gen_expression(n.right, 0) \o <<<<")">>>>
      [] n.type = "Unary" ->
           gen_expression(n, 0) =
               <<UnaryOp_to_js(n.operator)>> \o gen_expression(n.operand, 0)
      [] OTHER -> TRUE

\* every node of the tree of n is emitted as stated
RECURSIVE AllEmittedAsStated(_)
AllEmittedAsStated(n) ==
    /\ EmittedAsStated(n)
    /\ \A i \in 1..Len(Children(n)) : AllEmittedAsStated(Children(n)[i])

\* the places of the expression statements of the program that was emitted
ExpressionsEmitted ==
    IF program = NoResult THEN {}
    ELSE {i \in 1..Len(program.val.statements) :
              program.val.statements[i].type = "Expression"}

\* C10: for every expression tree E the parser can produce, every Binary node
\* is emitted as '(' L ' ' op ' ' R ')' and unary nodes are emitted without
\* parentheses, and reading the emitted text of E with the same precedence
\* grammar (operator spellings mapped back) yields a tree equal to E, also
\* when an operand of a binary, unary, await, delete, call or member node is
\* itself an assignment, an arrow function, a unary negation or a
\* new-expression.
C10_ParenthesesPreserveGrouping ==
    \A i \in ExpressionsEmitted :
        /\ AllEmittedAsStated(program.val.statements[i].expression)
        /\ RereadIs(Reread(program.val.statements[i].expression),
                    program.val.statements[i].expression)

(***************************************************************************)
(* vlq_encode alone: one step of SpecVlq is one iteration of its loop      *)
(* (sourcemap.rs:244-257).                                                 *)
(***************************************************************************)
\* 2^30, the largest magnitude of the stated range
VlqLimit == 2 ^ 30

\* the magnitudes at which the encoding gets one digit longer
VlqEdges == {2 ^ 4, 2 ^ 9, 2 ^ 14, 2 ^ 19, 2 ^ 24, 2 ^ 29, VlqLimit}

\* every small value, and the values at and next to each edge
VlqValues ==
    ((0 - MaxVlq)..MaxVlq)
        \cup {m - 1 : m \in VlqEdges} \cup VlqEdges
        \cup {m + 1 : m \in VlqEdges \ {VlqLimit}}
        \cup {1 - m : m \in VlqEdges} \cup {0 - m : m \in VlqEdges}
        \cup {0 - (m + 1) : m \in VlqEdges \ {VlqLimit}}

\* vlq_encode(value) is entered: encoded is empty and vlq holds the value
\* with its sign in the lowest bit
InitVlq ==
    /\ source = <<>>
    /\ PipelineNew
    /\ builder = NoBuilder
    /\ source_map = NoSourceMap
    /\ report = NoReport
    /\ spans = NoSpans
    /\ \E value \in VlqValues :
          vlq = [value |-> value, vlq |-> vlq_start(value), encoded |-> <<>>,
                 pc |-> "loop"]

\* one iteration of the loop: a digit is pushed, and the loop ends when
\* nothing is left of vlq
VlqStep ==
    /\ vlq.pc = "loop"
    /\ vlq' = [vlq EXCEPT !.vlq = vlq_shift(vlq.vlq),
                          !.encoded = Append(vlq.encoded,
                                             BASE64_CHARS[vlq_digit(vlq.vlq) + 1]),
                          !.pc = IF vlq_positive(vlq_shift(vlq.vlq)) THEN "loop"
                                 ELSE "returned"]
    /\ UNCHANGED <<pipeline, builder, source_map, report, spans>>

NextVlq == VlqStep

SpecVlq == InitVlq /\ [][NextVlq]_vars

(***************************************************************************)
(* Properties of vlq_encode (SpecVlq).                                     *)
(***************************************************************************)
\* the number a base64 digit stands for
Base64Value(c) == (CHOOSE i \in 1..Len(BASE64_CHARS) : BASE64_CHARS[i] = c) - 1

IsBase64(c) == \E i \in 1..Len(BASE64_CHARS) : BASE64_CHARS[i] = c

HasContinuation(c) == Base64Value(c) >= VLQ_CONTINUATION_BIT

\* the magnitude the digits after the first one add, by the rule of Source
\* Map v3: five bits a digit, the low ones first, above the four of the first
RECURSIVE VlqUpper(_)
VlqUpper(digits) ==
    IF digits = <<>> THEN 0
    ELSE (Base64Value(Head(digits)) % VLQ_BASE) + VLQ_BASE * VlqUpper(Tail(digits))

\* the signed value of a whole VLQ: the lowest bit of the first digit is the
\* sign, the other bits are the magnitude
VlqDecode(digits) ==
    IF (Base64Value(digits[1]) % VLQ_BASE) % 2 = 1
    THEN 0 - ((Base64Value(digits[1]) % VLQ_BASE) \div 2
                  + (VLQ_BASE \div 2) * VlqUpper(Tail(digits)))
    ELSE (Base64Value(digits[1]) % VLQ_BASE) \div 2
             + (VLQ_BASE \div 2) * VlqUpper(Tail(digits))

\* a non-empty string of base64 digits, the continuation bit set in every
\* digit but the last
WellFormedVlq(digits) ==
    /\ digits # <<>>
    /\ \A i \in 1..Len(digits) :
          IsBase64(digits[i]) /\ (HasContinuation(digits[i]) <=> i < Len(digits))

\* C11: for every integer v in [-2^30, 2^30], vlq_encode(v) is a non-empty
\* string of base64 digits in which every digit except the last has the
\* continuation bit set, and decoding it by the Source Map v3 signed-VLQ rule
\* yields v; 0, 1, -1 and 16 encode to "A", "C", "D" and "gB".
C11_VlqRoundTrip ==
    vlq.pc = "returned" =>
        /\ vlq.value \in (0 - VlqLimit)..VlqLimit
        /\ WellFormedVlq(vlq.encoded)
        /\ VlqDecode(vlq.encoded) = vlq.value
        /\ vlq.encoded = vlq_encode(vlq.value)
        /\ (vlq.value = 0 => vlq.encoded = <<"A">>)
        /\ (vlq.value = 1 => vlq.encoded = <<"C">>)
        /\ (vlq.value = 0 - 1 => vlq.encoded = <<"D">>)
        /\ (vlq.value = 16 => vlq.encoded = <<"g", "B">>)

\* the largest value of the range has been encoded, in seven digits
C11_Witness ==
    /\ vlq.pc = "returned"
    /\ vlq.value = 0 - VlqLimit
    /\ Len(vlq.encoded) = 7

(***************************************************************************)
(* SourceMapBuilder alone: its methods are called in any order, the        *)
(* mappings on the line the builder is at, and build at the end            *)
(* (SpecBuilder).                                                          *)
(***************************************************************************)
GenCols == {0, 6}

\* source positions: a line and a column
SrcPositions == {<<0, 0>>, <<1, 8>>}

SymbolNames == {<<"f">>, <<"g">>}

\* the sequences of a sequence, one after the other
RECURSIVE Concat(_)
Concat(seqs) == IF seqs = <<>> THEN <<>> ELSE Head(seqs) \o Concat(Tail(seqs))

SegmentCount(b) == Len(Concat(b.segments))

InitBuilder ==
    /\ source = <<>>
    /\ PipelineNew
    /\ vlq = NoVlq
    /\ builder = SourceMapBuilderNew
    /\ source_map = NoSourceMap
    /\ report = NoReport
    /\ spans = NoSpans

AddMapping ==
    /\ source_map = NoSourceMap
    /\ builder # NoBuilder
    /\ SegmentCount(builder) < MaxSegments
    /\ \E gen_col \in GenCols, src \in SrcPositions :
          builder' = add_mapping(builder, builder.gen_line, gen_col, src[1], src[2])
    /\ UNCHANGED <<pipeline, vlq, source_map, report, spans>>

AddNamedMapping ==
    /\ source_map = NoSourceMap
    /\ builder # NoBuilder
    /\ SegmentCount(builder) < MaxSegments
    /\ \E src \in SrcPositions, name \in SymbolNames :
          builder' = add_named_mapping(builder, builder.gen_line, 6, src[1], src[2],
                                       name)
    /\ UNCHANGED <<pipeline, vlq, source_map, report, spans>>

NewLine ==
    /\ source_map = NoSourceMap
    /\ builder # NoBuilder
    /\ builder.gen_line < MaxGenLine
    /\ builder' = new_line(builder)
    /\ UNCHANGED <<pipeline, vlq, source_map, report, spans>>

\* builder.build(Some("t")) or builder.build(None)
Build ==
    /\ source_map = NoSourceMap
    /\ builder # NoBuilder
    /\ \E source_file \in {<<>>, <<<<"t">>>>} : source_map' = build(builder, source_file)
    /\ UNCHANGED <<pipeline, vlq, builder, report, spans>>

NextBuilder == AddMapping \/ AddNamedMapping \/ NewLine \/ Build

SpecBuilder == InitBuilder /\ [][NextBuilder]_vars

(***************************************************************************)
(* Properties of the encoded mappings (SpecBuilder).                       *)
(***************************************************************************)
\* the pieces of a text between the occurrences of a separator
RECURSIVE SplitOn(_, _)
SplitOn(text, sep) ==
    IF \A i \in 1..Len(text) : text[i] # sep THEN <<text>>
    ELSE <<SubSeq(text, 1,
                  (CHOOSE i \in 1..Len(text) :
                       text[i] = sep /\ \A j \in 1..(i - 1) : text[j] # sep) - 1)>>
         \o SplitOn(SubSeq(text,
                           (CHOOSE i \in 1..Len(text) :
                                text[i] = sep /\ \A j \in 1..(i - 1) : text[j] # sep)
                               + 1,
                           Len(text)), sep)

\* the VLQs of a string of base64 digits: each ends at the first digit that
\* has no continuation bit
RECURSIVE SplitVlq(_)
SplitVlq(digits) ==
    IF digits = <<>> THEN <<>>
    ELSE IF \A i \in 1..Len(digits) : HasContinuation(digits[i]) THEN <<digits>>
    ELSE <<SubSeq(digits, 1,
                  CHOOSE i \in 1..Len(digits) :
                      /\ ~HasContinuation(digits[i])
                      /\ \A j \in 1..(i - 1) : HasContinuation(digits[j]))>>
         \o SplitVlq(SubSeq(digits,
                            (CHOOSE i \in 1..Len(digits) :
                                 /\ ~HasContinuation(digits[i])
                                 /\ \A j \in 1..(i - 1) : HasContinuation(digits[j]))
                                + 1,
                            Len(digits)))

\* the numbers a segment of the mappings holds
DecodeSegment(text) ==
    [k \in 1..Len(SplitVlq(text)) |-> VlqDecode(SplitVlq(text)[k])]

\* the segments recorded before segment j of line i, in the order of the lines
Before(segments, i, j) ==
    Concat(SubSeq(segments, 1, i - 1)) \o SubSeq(segments[i], 1, j - 1)

LastOr(segs, field, default) ==
    IF segs = <<>> THEN default ELSE segs[Len(segs)][field]

\* the name index of the last named segment of segs, 0 if there is none
LastName(segs) ==
    LastOr(SelectSeq(segs, LAMBDA s : s.name_idx # <<>>), "name_idx", <<0>>)[1]

\* the fields of segment j of line i as stated: deltas against the previous
\* value of each field, the column against 0 at the start of a line, the
\* source index 0
StatedFields(segments, i, j) ==
    <<segments[i][j].gen_col - LastOr(SubSeq(segments[i], 1, j - 1), "gen_col", 0),
      0,
      segments[i][j].src_line - LastOr(Before(segments, i, j), "src_line", 0),
      segments[i][j].src_col - LastOr(Before(segments, i, j), "src_col", 0)>>
        \o (IF segments[i][j].name_idx = <<>> THEN <<>>
            ELSE <<segments[i][j].name_idx[1] - LastName(Before(segments, i, j))>>)

\* line i of the mappings holds the segments of line i of the builder
LineAsStated(segments, i, text) ==
    IF segments[i] = <<>> THEN text = <<>>
    ELSE /\ Len(SplitOn(text, ",")) = Len(segments[i])
         /\ \A j \in 1..Len(segments[i]) :
               DecodeSegment(SplitOn(text, ",")[j]) = StatedFields(segments, i, j)

\* C14: in the encoded mappings, lines are joined by ';' and segments of a
\* line by ','; each field is the signed-VLQ delta against the previous value
\* of that field; at each generated-line boundary only the generated-column
\* base resets to 0, while the source-line, source-column and name-index
\* bases carry over from the last segment of any earlier line; the
\* source-file index field is always encoded as 0.
C14_DeltaEncoding ==
    source_map # NoSourceMap =>
        /\ Len(SplitOn(source_map.mappings, ";")) = Len(builder.segments)
        /\ \A i \in 1..Len(builder.segments) :
              LineAsStated(builder.segments, i, SplitOn(source_map.mappings, ";")[i])

\* a map was built of named segments on two lines with an empty line between
\* them, the second with smaller source positions and the next name
C14_Witness ==
    /\ source_map # NoSourceMap
    /\ Len(builder.segments) = 3
    /\ builder.segments[2] = <<>>
    /\ \E s \in Range(builder.segments[1]), t \in Range(builder.segments[3]) :
          /\ s.name_idx = <<0>> /\ t.name_idx = <<1>>
          /\ t.src_line < s.src_line /\ t.src_col < s.src_col

(***************************************************************************)
(* The source map of a generated program.                                  *)
(***************************************************************************)
\* generate has run
Generated == program # NoResult

Occurrences(text, c) == Cardinality({i \in 1..Len(text) : text[i] = c})

\* the mappings string of the source map of the generated program
Mappings == get_source_map(codegen).mappings

\* C12: for every program generated with source maps enabled, the mappings
\* string contains only base64 digits and the separators ',' and ';', and the
\* number of ';'-separated groups equals the number of generated lines minus
\* one (the lines counting the empty one after the last line feed), also when
\* the last generated lines carry no segment.
C12_MappingsWellFormed ==
    (Generated /\ codegen.source_map_enabled /\ output # <<>>) =>
        /\ \A i \in 1..Len(Mappings) :
              IsBase64(Mappings[i]) \/ Mappings[i] \in {",", ";"}
        /\ Occurrences(Mappings, ";") + 1 = Occurrences(output, "\n")

\* the generated line on which statement i of the program starts
StatementLine(i) ==
    Occurrences(Text(gen_body(SubSeq(program.val.statements, 1, i - 1), 0)), "\n")

\* exactly one segment of the builder has this generated and source position
MappedOnce(b, gen_line, gen_col, src_line, src_col) ==
    /\ gen_line + 1 <= Len(b.segments)
    /\ Cardinality({j \in 1..Len(b.segments[gen_line + 1]) :
                        /\ b.segments[gen_line + 1][j].gen_col = gen_col
                        /\ b.segments[gen_line + 1][j].src_line = src_line
                        /\ b.segments[gen_line + 1][j].src_col = src_col}) = 1

NodeMapped(i, node) ==
    MappedOnce(codegen.source_map_builder, StatementLine(i), 0,
               node.span.line - 1, node.span.column - 1)

\* C13: with source maps enabled, before the first character of each
\* statement, of every kind, and of each identifier or number expression, the
\* generator records exactly one mapping from the current generated line and
\* column to (span.line - 1, span.column - 1) of the node.  Stated for the
\* statements of the program and the identifier or number a statement is.
C13_MappingPerNode ==
    (Generated /\ codegen.source_map_enabled) =>
        \A i \in 1..Len(program.val.statements) :
            /\ NodeMapped(i, program.val.statements[i])
            /\ (/\ program.val.statements[i].type = "Expression"
                /\ program.val.statements[i].expression.type \in {"Identifier", "Number"})
                    => NodeMapped(i, program.val.statements[i].expression)

(***************************************************************************)
(* The text of an if statement.                                            *)
(***************************************************************************)
\* the text of an if statement up to the "}" that closes its then-branch,
\* with the indentation before "if"
ThenText(stmt, indent) ==
    Text(write_indent(indent) \o <<<<"i", "f", " ", "(">>>> \o gen_expression(stmt.condition, indent)
             \o gen_block(<<")", " ", "{", "\n">>, stmt.then_branch, indent))

\* the text of a statement without the indentation before its first character
Unindented(stmt, indent) ==
    SubSeq(Text(gen_statement(stmt, indent)), Len(Text(write_indent(indent))) + 1,
           Len(Text(gen_statement(stmt, indent))))

\* what follows the "}" of the then-branch, as stated: nothing with no
\* else-body, " else if (" and on with an else-body that is one if statement,
\* " else {", the body one level deeper and "}" with any other
RECURSIVE IfAsStated(_, _)
IfAsStated(stmt, indent) ==
    IF stmt.else_branch = <<>>
    THEN Text(gen_statement(stmt, indent)) = ThenText(stmt, indent)
    ELSE IF Len(stmt.else_branch[1]) = 1 /\ stmt.else_branch[1][1].type = "If"
    THEN /\ Text(gen_statement(stmt, indent))
              = ThenText(stmt, indent) \o <<" ", "e", "l", "s", "e", " ">>
                    \o Unindented(stmt.else_branch[1][1], indent)
         /\ IfAsStated(stmt.else_branch[1][1], indent)
    ELSE Text(gen_statement(stmt, indent))
             = ThenText(stmt, indent) \o <<" ", "e", "l", "s", "e", " ", "{", "\n">>
                   \o Text(gen_body(stmt.else_branch[1], indent + 1))
                   \o Text(write_indent(indent)) \o <<"}">>

\* the statements a statement holds one level deeper
Inner(stmt) ==
    CASE stmt.type = "Block" -> stmt.statements
      [] stmt.type = "FunctionDecl" -> stmt.body
      [] OTHER -> <<>>

\* C15: at every nesting depth, an if statement whose else-body is exactly one
\* nested if is emitted as '} else if (' and on, with one space between 'else'
\* and 'if', no extra braces and no indentation put in; with any other
\* else-body it is emitted as '} else {', the indented body and a closing '}'.
\* Stated for the statements of the program and the ones they hold.
C15_ElseIfChain ==
    Generated =>
        \A i \in 1..Len(program.val.statements) :
            /\ program.val.statements[i].type = "If"
                   => IfAsStated(program.val.statements[i], 0)
            /\ \A j \in 1..Len(Inner(program.val.statements[i])) :
                   Inner(program.val.statements[i])[j].type = "If"
                       => IfAsStated(Inner(program.val.statements[i])[j], 1)

(***************************************************************************)
(* String literals: every source of SpecString is one string literal, and  *)
(* the steps are those of SpecEmit.                                        *)
(***************************************************************************)
MaxStringItems == 2

\* what may stand in a literal opened with quote: a letter, a character of
\* two bytes, the other quote, a line feed, and the escapes \\ \" \n \t \r
StringItems(quote) ==
    {<<"x">>, <<"e^">>, <<IF quote = "\"" THEN "'" ELSE "\"">>, <<"\n">>,
     <<"\\", "\\">>, <<"\\", "\"">>, <<"\\", "n">>, <<"\\", "t">>, <<"\\", "r">>}

StringSources ==
    UNION {{<<quote>> \o Concat(items) \o <<quote, "\n">> :
                items \in SeqsUpTo(StringItems(quote), MaxStringItems)} :
               quote \in {"\"", "'"}}

InitString ==
    /\ source \in StringSources
    /\ PipelineStart

SpecString == InitString /\ [][NextEmit]_vars

\* the program is one expression statement of a node of this type
ProgramOf(type) ==
    /\ Generated
    /\ Len(program.val.statements) = 1
    /\ program.val.statements[1].type = "Expression"
    /\ program.val.statements[1].expression.type = type

TheExpression == program.val.statements[1].expression

\* a character of a string as stated: '"', '\', line feed, carriage return
\* and tab escaped, any other character as it is
StatedCharacter(c) ==
    IF c \in {"\"", "\\"} THEN <<"\\", c>>
    ELSE IF c = "\n" THEN <<"\\", "n">>
    ELSE IF c = "\r" THEN <<"\\", "r">>
    ELSE IF c = "\t" THEN <<"\\", "t">>
    ELSE <<c>>

StatedString(s) ==
    <<"\"">> \o Concat([i \in 1..Len(s) |-> StatedCharacter(s[i])]) \o <<"\"">>

\* the text has exactly one token before Eof, of this kind and value
OneToken(text, kind, value) ==
    /\ Len(tokenize(text)) = 2
    /\ tokenize(text)[1].kind = kind
    /\ tokenize(text)[1].value = value
    /\ tokenize(text)[2].kind = "Eof"

\* C16: for every string value s the lexer can produce, the generator emits s
\* double-quoted with '"', '\', line feed, carriage return and tab escaped and
\* every other character as it is, and tokenizing the emitted text yields
\* exactly one String token whose value is s.
C16_StringRoundTrip ==
    ProgramOf("String") =>
        /\ Text(gen_expression(TheExpression, 0)) = StatedString(TheExpression.value)
        /\ output = StatedString(TheExpression.value) \o <<";", "\n">>
        /\ OneToken(Text(gen_expression(TheExpression, 0)), "String",
                    TheExpression.value)

\* a value with a quote, a backslash and a line feed has been emitted, and the
\* emitted text has been tokenized again
C16_Witness ==
    /\ ProgramOf("String")
    /\ TheExpression.value \in {<<"\\", "\"">>, <<"\n", "\\">>}
    /\ pc = "lexed"
    /\ tokens[1].kind = "String"
    /\ tokens[1].value = TheExpression.value

(***************************************************************************)
(* Number literals: every source of SpecNumber is one number literal, and  *)
(* the steps are those of SpecEmit.                                        *)
(***************************************************************************)
MaxDigits == 3

MaxFractionDigits == 2

\* the sequences of 1 to n elements of S
SeqsFromOne(S, n) == SeqsUpTo(S, n) \ {<<>>}

\* digits, and digits, "." and digits: with leading zeros, with a fraction
\* that is zero and with one that is not
NumberSources ==
    {whole \o fraction \o <<"\n">> :
         whole \in SeqsFromOne({"0", "3", "7"}, MaxDigits),
         fraction \in {<<>>} \cup {<<".">> \o ds :
                                      ds \in SeqsFromOne({"0", "5"}, MaxFractionDigits)}}

InitNumber ==
    /\ source \in NumberSources
    /\ PipelineStart

SpecNumber == InitNumber /\ [][NextEmit]_vars

\* the text emitted for the number the program is
NumberText == Text(gen_expression(TheExpression, 0))

\* C17: for every number literal whose value is integral (and below 10^15),
\* the generator emits the canonical decimal integer, with no fractional part,
\* exponent or leading zeros, so that '3.0' and '007' emit '3' and '7', and
\* tokenizing the emitted text again yields a single Number token with the
\* same value.
C17_NumberRendering ==
    (ProgramOf("Number") /\ TheExpression.value[2] = 0) =>
        /\ \A i \in 1..Len(NumberText) : is_ascii_digit(NumberText[i])
        /\ Len(NumberText) = 1 \/ NumberText[1] # "0"
        /\ DigitsValue(NumberText) = TheExpression.value[1]
        /\ output = NumberText \o <<";", "\n">>
        /\ OneToken(NumberText, "Number", TheExpression.value)
        /\ source = <<"3", ".", "0", "\n">> => NumberText = <<"3">>
        /\ source = <<"0", "0", "7", "\n">> => NumberText = <<"7">>

\* '3.0' has been emitted as '3' and the emitted text tokenized again
C17_Witness ==
    /\ ProgramOf("Number")
    /\ source = <<"3", ".", "0", "\n">>
    /\ output = <<"3", ";", "\n">>
    /\ pc = "lexed"
    /\ tokens[1].kind = "Number"
    /\ tokens[1].value = TheExpression.value

(***************************************************************************)
(* Statements with optional parts: every source of SpecOptional is one     *)
(* statement, and the steps are those of SpecParse.                        *)
(***************************************************************************)
\* a return before Newline and before Eof, with and without a value
ReturnSources == {<<"p", "i", "g", "l", "i", "e", "\n">>, <<"p", "i", "g", "l", "i", "e">>, <<"p", "i", "g", "l", "i", "e", " ", "x", "\n">>, <<"p", "i", "g", "l", "i", "e", " ", "x">>}

\* a return before "}", with and without a value
InnerReturnSources == {<<"f", "a", "c", "c", " ", "f", "(", ")", " ", "{", " ", "p", "i", "g", "l", "i", "e", " ", "}", "\n">>, <<"f", "a", "c", "c", " ", "f", "(", ")", " ", "{", " ", "p", "i", "g", "l", "i", "e", " ", "x", " ", "}", "\n">>}

IfSources == {<<"s", "i", " ", "(", "x", ")", " ", "{", " ", "}", "\n">>, <<"s", "i", " ", "(", "x", ")", " ", "{", " ", "}", " ", "s", "i", "n", "n", "o^", " ", "{", " ", "}", "\n">>}

LetSources == {<<"t", "i", "e", "n", " ", "x", "\n">>, <<"t", "i", "e", "n", " ", "x", " ", "=", " ", "1", "\n">>}

ForInits == {<<>>, <<"t", "i", "e", "n", " ", "k", " ", "=", " ", "0">>, <<"t", "i", "e", "n", " ", "k">>, <<"k", " ", "=", " ", "0">>}

ForConditions == {<<>>, <<"k", " ", "<", " ", "2">>}

ForUpdates == {<<>>, <<"k", " ", "=", " ", "k", " ", "+", " ", "1">>}

ForSource(ogni, init, condition, update) ==
    <<"p", "e", " ">> \o (IF ogni THEN <<"o", "g", "n", "i", " ">> ELSE <<>>) \o <<"(">> \o init \o <<";">> \o condition
        \o <<";">> \o update \o <<")", " ", "{", " ", "}", "\n">>

ForSources ==
    {ForSource(ogni, init, condition, update) :
         ogni \in BOOLEAN, init \in ForInits, condition \in ForConditions,
         update \in ForUpdates}

OptionalSources ==
    ReturnSources \cup InnerReturnSources \cup IfSources \cup LetSources
        \cup ForSources

InitOptional ==
    /\ source \in OptionalSources
    /\ PipelineStart

SpecOptional == InitOptional /\ [][NextParse]_vars

\* parse has returned Ok with one statement of this type
ParsedOne(type) ==
    /\ pc = "parsed"
    /\ result.kind = "Ok"
    /\ Len(result.val.statements) = 1
    /\ result.val.statements[1].type = type

TheStatement == result.val.statements[1]

\* the option is None exactly when the text of the part is empty
AbsentIff(option, text) == (option = <<>>) <=> (text = <<>>)

ForParsed(ogni, init, condition, update) ==
    source = ForSource(ogni, init, condition, update) =>
        /\ ParsedOne("For")
        /\ AbsentIff(TheStatement.init, init)
        /\ AbsentIff(TheStatement.condition, condition)
        /\ AbsentIff(TheStatement.update, update)

\* C18: optional parts parse without error.  'piglie' followed by '}',
\* Newline or Eof yields Return with no value; 'si' without 'sinnò' yields If
\* with no else-body; 'tien NAME' without '=' yields a non-const VariableDecl
\* with no initializer; a 'pe' header with any of the eight subsets of init,
\* condition and update absent, with or without 'ogni', yields a For whose
\* absent clauses are None.
C18_OptionalParts ==
    pc = "parsed" =>
        /\ source \in ReturnSources =>
               /\ ParsedOne("Return")
               /\ (TheStatement.value = <<>>) <=> (source \in {<<"p", "i", "g", "l", "i", "e", "\n">>, <<"p", "i", "g", "l", "i", "e">>})
        /\ source \in InnerReturnSources =>
               /\ ParsedOne("FunctionDecl")
               /\ Len(TheStatement.body) = 1
               /\ TheStatement.body[1].type = "Return"
               /\ (TheStatement.body[1].value = <<>>) <=> (source = <<"f", "a", "c", "c", " ", "f", "(", ")", " ", "{", " ", "p", "i", "g", "l", "i", "e", " ", "}", "\n">>)
        /\ source \in IfSources =>
               /\ ParsedOne("If")
               /\ (TheStatement.else_branch = <<>>) <=> (source = <<"s", "i", " ", "(", "x", ")", " ", "{", " ", "}", "\n">>)
        /\ source \in LetSources =>
               /\ ParsedOne("VariableDecl")
               /\ ~TheStatement.is_const
               /\ (TheStatement.value = <<>>) <=> (source = <<"t", "i", "e", "n", " ", "x", "\n">>)
        /\ \A ogni \in BOOLEAN, init \in ForInits, condition \in ForConditions,
              update \in ForUpdates :
               ForParsed(ogni, init, condition, update)

\* a for header with nothing in it has been parsed, and so has a return
\* before Eof
C18_Witness ==
    /\ source \in {<<"p", "e", " ", "(", ";", ";", ")", " ", "{", " ", "}", "\n">>, <<"p", "i", "g", "l", "i", "e">>}
    /\ ParsedOne(IF source = <<"p", "i", "g", "l", "i", "e">> THEN "Return" ELSE "For")

(***************************************************************************)
(* The spans of the nodes of a parsed program.                            *)
(***************************************************************************)
\* the span is 1-indexed and is at the line and column of the token that
\* starts where the span starts, the first token of the node
DesignatesStart(span) ==
    /\ span.line >= 1
    /\ span.column >= 1
    /\ \E k \in 1..Len(tokens) :
          /\ tokens[k].kind # "Eof"
          /\ tokens[k].span.start = span.start
          /\ tokens[k].span.line = span.line
          /\ tokens[k].span.column = span.column

\* C19: every span the parser attaches to a statement or expression node is
\* 1-indexed and designates the start of the node: its line is at least 1 and
\* the line of the node's first token, its column is at least 1 and the column
\* of that token, so that (line - 1, column - 1) is the 0-indexed start of
\* the node.  Stated for the statements of the program and the expression an
\* expression statement holds.
C19_SpansDesignateStart ==
    (pc = "parsed" /\ result.kind = "Ok") =>
        \A i \in 1..Len(result.val.statements) :
            /\ DesignatesStart(result.val.statements[i].span)
            /\ result.val.statements[i].type = "Expression"
                   => DesignatesStart(result.val.statements[i].expression.span)

(***************************************************************************)
(* Reporting an error: SpecError formats a CompileError with Display and   *)
(* puts its message in Napoletano.                                         *)
(***************************************************************************)
MaxErrorLine == 5

\* messages of Parser::expect, expect_identifier and parse_primary, and the
\* one of tests::test_error_formatting
ErrorMessages ==
    {<<"A", "s", "p", "e", "t", "t", "a", "v", "o", " ", "'", "}", "'">>,
     <<"A", "s", "p", "e", "t", "t", "a", "v", "o", " ", "'", "}", "'", ",", " ", "m", "a", " ", "h", "o", " ", "t", "r", "o", "v", "a", "t", "o", " ", "'", "E", "O", "F", "'">>,
     <<"A", "s", "p", "e", "t", "t", "a", "v", "o", " ", "'", ")", "'", ",", " ", "m", "a", " ", "h", "o", " ", "t", "r", "o", "v", "a", "t", "o", " ", "'", "}", "'">>,
     <<"A", "s", "p", "e", "t", "t", "a", "v", "o", " ", "u", "n", " ", "n", "o", "m", "e", ",", " ", "n", "o", " ", "'", "1", "'">>,
     <<"M", "a", " ", "c", "h", "e", " ", "e^", " ", "'", ")", "'", " ", "q", "u", "a", "?", " ", "A", "s", "p", "e", "t", "t", "a", "v", "o", " ", "u", "n", "'", "e", "s", "p", "r", "e", "s", "s", "i", "o", "n", "e", "!">>,
     <<"U", "n", "t", "e", "r", "m", "i", "n", "a", "t", "e", "d", " ", "s", "t", "r", "i", "n", "g">>}

CompileErrors ==
    [kind : {"LexerError", "ParseError"}, message : ErrorMessages,
     line : 1..MaxErrorLine, column : {1, 10}]
        \cup [kind : {"CodeGenError"}, message : ErrorMessages, line : {0}, column : {0}]

InitError ==
    /\ source = <<>>
    /\ PipelineNew
    /\ vlq = NoVlq
    /\ builder = NoBuilder
    /\ source_map = NoSourceMap
    /\ spans = NoSpans
    /\ \E error \in CompileErrors :
          report = [error |-> <<error>>, text |-> <<>>, napoletano |-> <<>>]

\* format!("{}", error)
Display ==
    /\ report.error # <<>>
    /\ report.text = <<>>
    /\ report' = [report EXCEPT !.text = CompileError_fmt(report.error[1])]
    /\ UNCHANGED <<pipeline, vlq, builder, source_map, spans>>

\* napoletanize_error(&message)
Napoletanize ==
    /\ report.error # <<>>
    /\ report.napoletano = <<>>
    /\ report' = [report EXCEPT !.napoletano = napoletanize_error(report.error[1].message)]
    /\ UNCHANGED <<pipeline, vlq, builder, source_map, spans>>

NextError == Display \/ Napoletanize

SpecError == InitError /\ [][NextError]_vars

\* a ParseError whose message contains "Aspettavo '}'" has been formatted
BraceErrorDisplayed ==
    /\ report.error # <<>>
    /\ report.error[1].kind = "ParseError"
    /\ Contains(report.error[1].message, <<"A", "s", "p", "e", "t", "t", "a", "v", "o", " ", "'", "}", "'">>)
    /\ report.text # <<>>

\* C20: formatting (Display) a CompileError::ParseError whose message
\* contains "Aspettavo '}'" produces text that contains the Neapolitan brace
\* hint 'parentesi graffa' and the position prefix 'Riga <line>' with the line
\* of the error.
C20_DisplayHasBraceHint ==
    BraceErrorDisplayed =>
        /\ Contains(report.text, <<"p", "a", "r", "e", "n", "t", "e", "s", "i", " ", "g", "r", "a", "f", "f", "a">>)
        /\ Contains(report.text, <<"R", "i", "g", "a", " ">> \o i64_to_string(report.error[1].line))

(***************************************************************************)
(* The generated position the generator tracks (SpecEmit).                 *)
(***************************************************************************)
\* the number of characters of a text after its last line feed
SinceLineFeed(text) ==
    Cardinality({i \in 1..Len(text) : \A j \in i..Len(text) : text[j] # "\n"})

\* the calls of emit and add_mapping generate made for the program
Calls == gen_body(program.val.statements, 0)

\* the line and the column, in the output, of the next character emitted
\* after the first i - 1 calls
TruePosition(i) ==
    <<Occurrences(Text(SubSeq(Calls, 1, i - 1)), "\n"),
      SinceLineFeed(Text(SubSeq(Calls, 1, i - 1)))>>

\* the segments a builder holds at a generated position
SegmentsAt(b, position) ==
    IF position[1] + 1 > Len(b.segments) THEN 0
    ELSE Cardinality({j \in 1..Len(b.segments[position[1] + 1]) :
                          b.segments[position[1] + 1][j].gen_col = position[2]})

\* the calls of add_mapping made at a generated position
MappingsAt(position) ==
    Cardinality({i \in 1..Len(Calls) : IsMapping(Calls[i]) /\ TruePosition(i) = position})

\* C21: after the emit calls of a generation, current_line is the number of
\* line feeds emitted and current_col the number of characters emitted since
\* the last one; with source maps enabled the builder was told of a new line
\* once per line feed (and never when they are disabled); and every recorded
\* mapping's generated position is the position in the output of the next
\* character emitted.
C21_PositionTracking ==
    Generated =>
        /\ codegen.current_line = Occurrences(output, "\n")
        /\ codegen.current_col = SinceLineFeed(output)
        /\ codegen.source_map_builder.gen_line =
               IF codegen.source_map_enabled THEN Occurrences(output, "\n") ELSE 0
        /\ codegen.source_map_enabled =>
               /\ \A i \in 1..Len(Calls) :
                      IsMapping(Calls[i]) =>
                          SegmentsAt(codegen.source_map_builder, TruePosition(i))
                              = MappingsAt(TruePosition(i))
               /\ \A line \in 1..Len(codegen.source_map_builder.segments) :
                      \A j \in 1..Len(codegen.source_map_builder.segments[line]) :
                          MappingsAt(<<line - 1,
                                       codegen.source_map_builder.segments[line][j].gen_col>>) > 0

\* a mapping was recorded past the start of a line after the second line feed
C21_Witness ==
    /\ Generated
    /\ codegen.source_map_enabled
    /\ codegen.current_line >= 3
    /\ \E line \in 3..Len(codegen.source_map_builder.segments) :
           \E j \in 1..Len(codegen.source_map_builder.segments[line]) :
               codegen.source_map_builder.segments[line][j].gen_col > 0

(***************************************************************************)
(* Expressions of operands and binary operators: every source of           *)
(* SpecPrecedence is one expression statement, and the steps are those of   *)
(* SpecParse.                                                              *)
(***************************************************************************)
\* a binary operator as written, its BinaryOp (Assignment for '=') and the
\* level it binds at, the loosest first
Operator(text, operator, level) == [text |-> text, operator |-> operator, level |-> level]

Operators ==
    {Operator(<<"=">>, "Assignment", 0), Operator(<<"o">>, "Or", 1),
     Operator(<<"e">>, "And", 2), Operator(<<"p", "u", "r", "e">>, "And", 2),
     Operator(<<"=", "=", "=">>, "StrictEqual", 3), Operator(<<"=", "=">>, "Equal", 3),
     Operator(<<"!", "=", "=">>, "StrictNotEqual", 3), Operator(<<"!", "=">>, "NotEqual", 3),
     Operator(<<"<">>, "LessThan", 4), Operator(<<"<", "=">>, "LessEqual", 4),
     Operator(<<">">>, "GreaterThan", 4), Operator(<<">", "=">>, "GreaterEqual", 4),
     Operator(<<"+">>, "Add", 5), Operator(<<"-">>, "Subtract", 5),
     Operator(<<"*">>, "Multiply", 6), Operator(<<"/">>, "Divide", 6),
     Operator(<<"%">>, "Modulo", 6), Operator(<<"*", "*">>, "Power", 7)}

\* one operator of each level, and a second of the levels that have one
LevelOperators ==
    {op \in Operators :
         op.text \in {<<"=">>, <<"o">>, <<"p", "u", "r", "e">>, <<"!", "=", "=">>, <<"<">>, <<"-">>, <<"/">>, <<"*", "*">>}}

\* the levels whose operators associate to the right: assignment and power
RightAssociative == {0, 7}

\* an operand as written and the tree it is
Operand(text, tree) == [text |-> text, tree |-> tree]

Name(n) == [type |-> "Identifier", name |-> <<n>>]

Prefixed(operator, operand) ==
    [type |-> "Unary", operator |-> operator, operand |-> operand]

Names == <<Operand(<<"x">>, Name("x")), Operand(<<"y">>, Name("y")),
           Operand(<<"z">>, Name("z")), Operand(<<"w">>, Name("w"))>>

\* operands with a prefix operator, a suffix, and a prefix operator before a
\* suffix
Chains ==
    <<Operand(<<"-", "x", ".", "k">>, Prefixed("Negate",
                  [type |-> "Member", object |-> Name("x"), property |-> Name("k"),
                   computed |-> FALSE])),
      Operand(<<"n", "o", " ", "y">>, Prefixed("Not", Name("y"))),
      Operand(<<"-", "z", "(", ")">>, Prefixed("Negate",
                  [type |-> "Call", callee |-> Name("z"), arguments |-> <<>>])),
      Operand(<<"w">>, Name("w"))>>

\* the text of operands with an operator between each two
RECURSIVE ExpressionText(_, _)
ExpressionText(operands, ops) ==
    IF ops = <<>> THEN operands[1].text
    ELSE operands[1].text \o <<" ">> \o ops[1].text \o <<" ">>
             \o ExpressionText(Tail(operands), Tail(ops))

\* the loosest level among the operators
LoosestLevel(ops) ==
    CHOOSE level \in 0..7 :
        /\ \E i \in 1..Len(ops) : ops[i].level = level
        /\ \A i \in 1..Len(ops) : ops[i].level >= level

\* the operator at the root: of the loosest level, the first when the level
\* associates to the right and the last when it associates to the left
RootIndex(ops) ==
    CHOOSE i \in 1..Len(ops) :
        /\ ops[i].level = LoosestLevel(ops)
        /\ \A j \in 1..Len(ops) :
               ops[j].level = LoosestLevel(ops) =>
                   IF LoosestLevel(ops) \in RightAssociative THEN i <= j ELSE j <= i

\* the node of an operator on two trees
OperatorNode(op, left, right) ==
    IF op.operator = "Assignment"
    THEN [type |-> "Assignment", target |-> left, value |-> right]
    ELSE [type |-> "Binary", left |-> left, operator |-> op.operator, right |-> right]

\* the tree the levels and the associativity give
RECURSIVE Grouped(_, _)
Grouped(operands, ops) ==
    IF ops = <<>> THEN operands[1].tree
    ELSE OperatorNode(ops[RootIndex(ops)],
             Grouped(SubSeq(operands, 1, RootIndex(ops)),
                     SubSeq(ops, 1, RootIndex(ops) - 1)),
             Grouped(SubSeq(operands, RootIndex(ops) + 1, Len(operands)),
                     SubSeq(ops, RootIndex(ops) + 1, Len(ops))))

\* two operators out of all, on names and on chains; three out of one or two
\* per level, on names
OperatorSeqs ==
    {<<op1, op2>> : op1 \in Operators, op2 \in Operators}
        \cup {<<op1, op2, op3>> : op1 \in LevelOperators, op2 \in LevelOperators,
                                  op3 \in LevelOperators}

OperandSeqs(ops) == IF Len(ops) = 2 THEN {Names, Chains} ELSE {Names}

TernarySources == {<<"x", " ", "?", " ", "y", " ", ":", " ", "z", " ", "?", " ", "w", " ", ":", " ", "k">>, <<"x", " ", "o", " ", "y", " ", "?", " ", "z", " ", ":", " ", "w", " ", "=", " ", "k", " ", "?", " ", "u", " ", ":", " ", "v">>}

PrecedenceSources ==
    {ExpressionText(operands, ops) : operands \in {Names}, ops \in OperatorSeqs}
        \cup {ExpressionText(Chains, ops) : ops \in {s \in OperatorSeqs : Len(s) = 2}}
        \cup TernarySources

InitPrecedence ==
    /\ source \in PrecedenceSources
    /\ PipelineStart

SpecPrecedence == InitPrecedence /\ [][NextParse]_vars

\* parse returned the one expression statement whose expression is the tree
ParsedAs(tree) ==
    /\ ParsedOne("Expression")
    /\ SameTree(TheStatement.expression, tree)

Conditional(condition, consequent, alternate) ==
    [type |-> "Ternary", condition |-> condition, consequent |-> consequent,
     alternate |-> alternate]

\* C22: an expression of binary operators without parentheses is grouped by
\* the level order assignment < or < and < equality < comparison < additive
\* < multiplicative < power < unary prefix < call/member suffix; the
\* operators of one level associate to the left, but '**' and assignment to
\* the right; and a ternary's alternate may itself be a ternary.
C22_PrecedenceAndAssociativity ==
    pc = "parsed" =>
        /\ \A ops \in OperatorSeqs : \A operands \in OperandSeqs(ops) :
               source = ExpressionText(operands, ops) => ParsedAs(Grouped(operands, ops))
        /\ source = <<"x", " ", "?", " ", "y", " ", ":", " ", "z", " ", "?", " ", "w", " ", ":", " ", "k">> =>
               ParsedAs(Conditional(Name("x"), Name("y"),
                            Conditional(Name("z"), Name("w"), Name("k"))))
        /\ source = <<"x", " ", "o", " ", "y", " ", "?", " ", "z", " ", ":", " ", "w", " ", "=", " ", "k", " ", "?", " ", "u", " ", ":", " ", "v">> =>
               ParsedAs(OperatorNode(Operator(<<"=">>, "Assignment", 0),
                            Conditional(OperatorNode(Operator(<<"o">>, "Or", 1),
                                                     Name("x"), Name("y")),
                                        Name("z"), Name("w")),
                            Conditional(Name("k"), Name("u"), Name("v"))))

\* a power of a power has been grouped to the right, below a product
C22_Witness ==
    /\ source = <<"x", " ", "/", " ", "y", " ", "*", "*", " ", "z", " ", "*", "*", " ", "w">>
    /\ ParsedOne("Expression")
    /\ TheStatement.expression.operator = "Divide"
    /\ TheStatement.expression.right.operator = "Power"
    /\ TheStatement.expression.right.right.operator = "Power"

(***************************************************************************)
(* Parenthesised expressions and arrow functions: every source of          *)
(* SpecArrow is one expression statement, and the steps are those of       *)
(* SpecParse.                                                              *)
(***************************************************************************)
\* what stands between the parentheses, with the tree it is
Inners ==
    {Operand(<<"x">>, Name("x")),
     Operand(<<"(", "x", ")">>, Name("x")),
     Operand(<<"o", "v", "e", "r", "o">>, [type |-> "Boolean", value |-> TRUE]),
     Operand(<<"x", " ", "+", " ", "y">>, OperatorNode(Operator(<<"+">>, "Add", 5), Name("x"), Name("y"))),
     Operand(<<"y", "(", ")">>, [type |-> "Call", callee |-> Name("y"), arguments |-> <<>>])}

\* what stands after the arrow, with the body it is
ArrowBodies ==
    {Operand(<<"y">>, [type |-> "Expression", expression |-> Name("y")]),
     Operand(<<"y", " ", "*", " ", "z">>, [type |-> "Expression",
                         expression |-> OperatorNode(Operator(<<"*">>, "Multiply", 6),
                                                     Name("y"), Name("z"))]),
     Operand(<<"(", "y", ")", " ", "=", ">", " ", "z">>,
             [type |-> "Expression",
              expression |-> [type |-> "ArrowFunction", params |-> <<<<"y">>>>,
                              body |-> [type |-> "Expression",
                                        expression |-> Name("z")]]]),
     Operand(<<"{", " ", "}">>, [type |-> "Block", statements |-> <<>>]),
     Operand(<<"{", " ", "p", "i", "g", "l", "i", "e", " ", "y", " ", "}">>,
             [type |-> "Block",
              statements |-> <<[type |-> "Return", value |-> <<Name("y")>>]>>])}

ArrowText(inner, body) == <<"(">> \o inner.text \o <<")", " ", "=", ">", " ">> \o body.text \o <<"\n">>

\* the arrow function as stated: the name between the parentheses is the one
\* parameter, anything else gives none
ArrowTree(inner, body) ==
    [type |-> "ArrowFunction",
     params |-> IF inner.tree.type = "Identifier" THEN <<inner.tree.name>> ELSE <<>>,
     body |-> body.tree]

ParenText(inner) == <<"(">> \o inner.text \o <<")", "\n">>

\* the parentheses before an operator, the arrow left out
ParenSumText(inner) == <<"(">> \o inner.text \o <<")", " ", "-", " ", "z", "\n">>

\* parameter lists with a comma
ListSources == {<<"(", "x", ",", " ", "y", ")", " ", "=", ">", " ", "x", "\n">>, <<"(", "x", ",", " ", "y", ")", " ", "=", ">", " ", "{", " ", "}", "\n">>, <<"(", "x", ",", " ", "y", ",", " ", "z", ")", " ", "=", ">", " ", "x", "\n">>}

ArrowSources ==
    {ArrowText(inner, body) : inner \in Inners, body \in ArrowBodies}
        \cup {ParenText(inner) : inner \in Inners}
        \cup {ParenSumText(inner) : inner \in Inners}
        \cup ListSources

InitArrow ==
    /\ source \in ArrowSources
    /\ PipelineStart

SpecArrow == InitArrow /\ [][NextParse]_vars

\* C23: '( E )' followed by '=>' parses to an ArrowFunction whose params is
\* [name] when E is an identifier and empty otherwise, with a block body when
\* '{' comes next and an expression body otherwise; '( E )' not followed by
\* '=>' parses to E itself; a parameter list with a comma is a parse error.
C23_ArrowDetection ==
    pc = "parsed" =>
        /\ \A inner \in Inners :
               /\ \A body \in ArrowBodies :
                      source = ArrowText(inner, body) => ParsedAs(ArrowTree(inner, body))
               /\ source = ParenText(inner) => ParsedAs(inner.tree)
               /\ source = ParenSumText(inner) =>
                      ParsedAs(OperatorNode(Operator(<<"-">>, "Subtract", 5),
                                            inner.tree, Name("z")))
        /\ source \in ListSources => result.kind = "Err"

\* an arrow function with one parameter and a block body has been parsed, and
\* so has one without parameters
C23_Witness ==
    /\ source \in {<<"(", "x", ")", " ", "=", ">", " ", "{", " ", "p", "i", "g", "l", "i", "e", " ", "y", " ", "}", "\n">>, <<"(", "x", " ", "+", " ", "y", ")", " ", "=", ">", " ", "y", "\n">>}
    /\ ParsedOne("Expression")
    /\ TheStatement.expression.type = "ArrowFunction"
    /\ TheStatement.expression.params = (IF source = <<"(", "x", " ", "+", " ", "y", ")", " ", "=", ">", " ", "y", "\n">> THEN <<>> ELSE <<<<"x">>>>)

(***************************************************************************)
(* 'nu bell': every source of SpecNew is one expression statement, and the *)
(* steps are those of SpecParse.                                           *)
(***************************************************************************)
CallOf(callee, arguments) == [type |-> "Call", callee |-> callee, arguments |-> arguments]

MemberOf(object, property, computed) ==
    [type |-> "Member", object |-> object, property |-> property, computed |-> computed]

\* a primary with its suffixes, and the tree it is
SuffixChains ==
    {Operand(<<"C">>, Name("C")),
     Operand(<<"C", "(", ")">>, CallOf(Name("C"), <<>>)),
     Operand(<<"C", "(", "x", ")">>, CallOf(Name("C"), <<Name("x")>>)),
     Operand(<<"C", "(", "x", ",", " ", "y", ")">>, CallOf(Name("C"), <<Name("x"), Name("y")>>)),
     Operand(<<"C", ".", "k">>, MemberOf(Name("C"), Name("k"), FALSE)),
     Operand(<<"C", "[", "x", "]">>, MemberOf(Name("C"), Name("x"), TRUE)),
     Operand(<<"C", ".", "k", "(", "x", ")">>, CallOf(MemberOf(Name("C"), Name("k"), FALSE), <<Name("x")>>)),
     Operand(<<"C", "(", "x", ")", ".", "k">>, MemberOf(CallOf(Name("C"), <<Name("x")>>), Name("k"), FALSE)),
     Operand(<<"C", "(", "x", ")", "(", "y", ")">>, CallOf(CallOf(Name("C"), <<Name("x")>>), <<Name("y")>>)),
     Operand(<<"(", "C", ")">>, Name("C")),
     Operand(<<"s", "t", "u", " ", "c", "o", "s">>, [type |-> "This"])}

NewText(chain) == <<"n", "u", " ", "b", "e", "l", "l", " ">> \o chain.text \o <<"\n">>

\* a New after an operator
NewSumText(chain) == <<"z", " ", "+", " ", "n", "u", " ", "b", "e", "l", "l", " ">> \o chain.text \o <<"\n">>

\* the New as stated
NewTree(chain) ==
    IF chain.tree.type = "Call"
    THEN [type |-> "New", callee |-> chain.tree.callee, arguments |-> chain.tree.arguments]
    ELSE [type |-> "New", callee |-> chain.tree, arguments |-> <<>>]

\* 'nu' without 'bell' after it
LoneNuSources == {<<"n", "u", " ", "C", "(", ")", "\n">>, <<"n", "u", "\n">>, <<"n", "u">>, <<"n", "u", " ", "(", "C", ")", "\n">>, <<"n", "u", " ", "n", "u", " ", "b", "e", "l", "l", " ", "C", "\n">>, <<"z", " ", "+", " ", "n", "u", " ", "C", "\n">>}

NewSources ==
    {NewText(chain) : chain \in SuffixChains}
        \cup {NewSumText(chain) : chain \in SuffixChains}
        \cup LoneNuSources

InitNew ==
    /\ source \in NewSources
    /\ PipelineStart

SpecNew == InitNew /\ [][NextParse]_vars

\* C24: 'nu bell' before a primary with its suffixes parses to New: of a
\* chain that is a Call, New takes the callee and the arguments; of any other
\* chain, New takes the whole as callee with no arguments; 'nu' without
\* 'bell' after it is a parse error.
C24_NewSplitsCall ==
    pc = "parsed" =>
        /\ \A chain \in SuffixChains :
               /\ source = NewText(chain) => ParsedAs(NewTree(chain))
               /\ source = NewSumText(chain) =>
                      ParsedAs(OperatorNode(Operator(<<"+">>, "Add", 5),
                                            Name("z"), NewTree(chain)))
        /\ source \in LoneNuSources => result.kind = "Err"

\* a New has taken the callee and the argument of a call of a member
C24_Witness ==
    /\ source = <<"n", "u", " ", "b", "e", "l", "l", " ", "C", ".", "k", "(", "x", ")", "\n">>
    /\ ParsedOne("Expression")
    /\ TheStatement.expression.type = "New"
    /\ TheStatement.expression.callee.type = "Member"
    /\ Len(TheStatement.expression.arguments) = 1

(***************************************************************************)
(* Operators: every source of SpecOperators is a run of operator           *)
(* characters that opens no comment, or one of the spellings of not; the   *)
(* steps are those of SpecLex.                                             *)
(***************************************************************************)
MaxOperatorChars == 4

OperatorChars == {"+", "-", "*", "/", "=", "!", "<", ">"}

\* the operators as written, each with its tag
OperatorTable ==
    {<<<<"+">>, "Plus">>, <<<<"+", "=">>, "PlusEqual">>, <<<<"-">>, "Minus">>, <<<<"-", "=">>, "MinusEqual">>,
     <<<<"*">>, "Star">>, <<<<"*", "*">>, "StarStar">>, <<<<"*", "=">>, "StarEqual">>,
     <<<<"/">>, "Slash">>, <<<<"/", "=">>, "SlashEqual">>,
     <<<<"=">>, "Equal">>, <<<<"=", "=">>, "EqualEqual">>, <<<<"=", "=", "=">>, "EqualEqualEqual">>,
     <<<<"=", ">">>, "Arrow">>,
     <<<<"!">>, "Not">>, <<<<"!", "=">>, "BangEqual">>, <<<<"!", "=", "=">>, "BangEqualEqual">>,
     <<<<"<">>, "Less">>, <<<<"<", "=">>, "LessEqual">>, <<<<">">>, "Greater">>,
     <<<<">", "=">>, "GreaterEqual">>}

\* the operators a text starts with
Matching(text) ==
    {op \in OperatorTable :
         Len(op[1]) <= Len(text) /\ SubSeq(text, 1, Len(op[1])) = op[1]}

\* the longest of them
Longest(text) ==
    CHOOSE op \in Matching(text) : \A other \in Matching(text) : Len(other[1]) <= Len(op[1])

\* the tags of a text cut into operators, the longest operator first
RECURSIVE MaximalMunch(_)
MaximalMunch(text) ==
    IF text = <<>> THEN <<>>
    ELSE <<Longest(text)[2]>>
             \o MaximalMunch(SubSeq(text, Len(Longest(text)[1]) + 1, Len(text)))

\* "//" or "/*" stands somewhere in the text
OpensComment(text) ==
    \E i \in 1..(Len(text) - 1) : text[i] = "/" /\ text[i + 1] \in {"/", "*"}

NotSources == {<<"n", "o">>, <<"!">>, <<"n", "o", " ", "!", "x">>, <<"!", "n", "o", " ", "x">>}

OperatorSources ==
    {text \in SeqsUpTo(OperatorChars, MaxOperatorChars) : ~OpensComment(text)}
        \cup NotSources

InitOperators ==
    /\ source \in OperatorSources
    /\ PipelineStart

SpecOperators == InitOperators /\ [][NextLex]_vars

\* the tags of the tokens
Tags == [i \in 1..Len(tokens) |-> tokens[i].kind]

\* C25: operators are lexed by maximal munch: at any position the lexer
\* emits the longest operator that matches, so '===' is one token and never
\* '==' then '=', '!==' is one token, '=>' is Arrow, '**' is StarStar, '+=',
\* '-=', '*=', '/=', '<=', '>=' are single tokens, and a lone '!' has the tag
\* Not of the word 'no'.
C25_MaximalMunch ==
    pc = "lexed" =>
        /\ source \notin NotSources => Tags = MaximalMunch(source) \o <<"Eof">>
        /\ source = <<"n", "o">> => Tags = <<"Not", "Eof">>
        /\ source = <<"!">> => Tags = <<"Not", "Eof">>
        /\ source = <<"n", "o", " ", "!", "x">> => Tags = <<"Not", "Not", "Identifier", "Eof">>
        /\ source = <<"!", "n", "o", " ", "x">> => Tags = <<"Not", "Not", "Identifier", "Eof">>

\* '===' has been lexed before '>', and '!==' before '='
C25_Witness ==
    /\ pc = "lexed"
    /\ source \in {<<"=", "=", "=", ">">>, <<"!", "=", "=", "=">>}
    /\ Len(tokens) = 3

(***************************************************************************)
(* Merging spans: SpecSpans merges two spans of a text whose lines are     *)
(* MaxSpanColumn bytes long, the line feed counted.                        *)
(***************************************************************************)
MaxSpanLine == 3

MaxSpanColumn == 3

\* the byte offset of a line and a column
OffsetOf(line, column) == (line - 1) * MaxSpanColumn + (column - 1)

\* the spans that start at a column of a line and end at or after their start
TextSpans ==
    {span \in {SpanNew(OffsetOf(line, column), end, line, column) :
                   line \in 1..MaxSpanLine, column \in 1..MaxSpanColumn,
                   end \in 0..(MaxSpanLine * MaxSpanColumn)} :
         span.start <= span.end}

InitSpans ==
    /\ source = <<>>
    /\ PipelineNew
    /\ vlq = NoVlq
    /\ builder = NoBuilder
    /\ source_map = NoSourceMap
    /\ report = NoReport
    /\ \E self \in TextSpans, other \in TextSpans :
          spans = [self |-> self, other |-> other, merged |-> <<>>]

\* self.merge(&other)
Merge ==
    /\ spans.merged = <<>>
    /\ spans' = [spans EXCEPT !.merged = <<merge(spans.self, spans.other)>>]
    /\ UNCHANGED <<pipeline, vlq, builder, source_map, report>>

NextSpans == Merge

SpecSpans == InitSpans /\ [][NextSpans]_vars

\* the one of two spans that begins first
BeginsFirst(m, n) == IF m.start <= n.start THEN m ELSE n

\* the span covering both
Covering(m, n) ==
    SpanNew(Min(m.start, n.start), Max(m.end, n.end),
            BeginsFirst(m, n).line, BeginsFirst(m, n).column)

\* C26: Span::merge(a, b) yields the span covering both: start is the
\* smaller start, end the larger end, line and column those of whichever
\* input begins first, so merge(a, b) = merge(b, a) for all spans; the default
\* span is (start 0, end 0, line 1, column 1).
C26_MergeCovers ==
    /\ SpanDefault = SpanNew(0, 0, 1, 1)
    /\ spans.merged # <<>> =>
           /\ spans.merged[1] = Covering(spans.self, spans.other)
           /\ spans.merged[1] = merge(spans.other, spans.self)

(***************************************************************************)
(* The cursor of the parser (SpecParse).                                   *)
(***************************************************************************)
\* the cursor is on a token of the list, the Eof token at most
CursorInBounds ==
    (pc \in {"parse", "parsed", "aborted"}) => parser.current < Len(parser.tokens)

\* no span of the tree below a node was taken from previous() with the
\* cursor at 0
RECURSIVE SpansFromTokens(_)
SpansFromTokens(node) ==
    /\ "span" \in DOMAIN node => node.span.line >= 1
    /\ \A i \in 1..Len(Children(node)) : SpansFromTokens(Children(node)[i])

\* previous() was not evaluated with the cursor at 0: no statement and no
\* error holds what it gives there
NoIndexPanic ==
    /\ \A i \in 1..Len(statements) : SpansFromTokens(statements[i])
    /\ \A i \in 1..Len(errors) :
           /\ errors[i].span.line >= 1
           /\ \A j \in 1..Len(errors[i].message) : errors[i].message[j] # "IndexPanic"

\* no more errors than tokens consumed, and no more returned than tokens
\* before Eof
ErrorsBounded ==
    /\ Len(errors) <= parser.current
    /\ (pc = "parsed" /\ result.kind = "Err") => Len(result.val) <= Len(tokens) - 1

\* an iteration of the loop of parse leaves the cursor further on
IterationConsumes ==
    (pc = "parse" /\ pc' # "parsed") => parser'.current > parser.current

\* C27: the cursor never moves past the Eof token and previous() is never
\* evaluated with the cursor at 0; every iteration of the loop of parse,
\* whether the statement succeeded or failed and was recovered, consumes at
\* least one token, so the ParseErrors returned are never more than the
\* tokens before Eof.
C27_ParserProgress ==
    /\ [](CursorInBounds /\ NoIndexPanic /\ ErrorsBounded)
    /\ [][IterationConsumes]_vars

\* parse has returned two errors after a statement that succeeded
C27_Witness ==
    /\ pc = "parsed"
    /\ result.kind = "Err"
    /\ Len(result.val) >= 2
    /\ statements # <<>>

(***************************************************************************)
(* Indentation: every source of SpecIndent is one statement that holds     *)
(* another inside a body, and the steps are those of SpecEmit.             *)
(***************************************************************************)
MaxIndent == 3

\* statements without a body, with an else-if chain, with an export and with
\* an arrow function that has a block body
InnerTexts ==
    {<<"y">>,
     <<"s", "i", " ", "(", "x", ")", " ", "{", " ", "}", " ", "s", "i", "n", "n", "o^", " ", "s", "i", " ", "(", "y", ")", " ", "{", " ", "z", " ", "}", " ", "s", "i", "n", "n", "o^", " ", "{", " ", "}">>,
     <<"m", "a", "n", "n", " ", "f", "o", "r", " ", "f", "a", "c", "c", " ", "h", "(", ")", " ", "{", " ", "z", " ", "}">>,
     <<"(", "u", ")", " ", "=", ">", " ", "{", " ", "p", "i", "g", "l", "i", "e", " ", "u", " ", "}">>}

WrapKinds == 1..10

\* a statement with the text inside each of its bodies
Wrapped(kind, text) ==
    CASE kind = 1 -> <<"{", " ">> \o text \o <<" ", "}">>
      [] kind = 2 -> <<"f", "a", "c", "c", " ", "f", "(", ")", " ", "{", " ">> \o text \o <<" ", "}">>
      [] kind = 3 -> <<"s", "i", " ", "(", "x", ")", " ", "{", " ">> \o text \o <<" ", "}", " ", "s", "i", "n", "n", "o^", " ", "s", "i", " ", "(", "y", ")", " ", "{", " ">> \o text \o <<" ", "}">>
      [] kind = 4 -> <<"s", "i", " ", "(", "x", ")", " ", "{", " ", "}", " ", "s", "i", "n", "n", "o^", " ", "{", " ">> \o text \o <<" ", "}">>
      [] kind = 5 -> <<"x", " ", "=", " ", "(", "u", ")", " ", "=", ">", " ", "{", " ">> \o text \o <<" ", "}">>
      [] kind = 6 -> <<"m", "a", "n", "n", " ", "f", "o", "r", " ", "f", "a", "c", "c", " ", "f", "(", ")", " ", "{", " ">> \o text \o <<" ", "}">>
      [] kind = 7 -> <<"n", "a", " ", "f", "a", "m", "i", "g", "l", "i", "e", " ", "C", " ", "{", " ", "f", "a", "c", "c", " ", "g", "(", "u", ")", " ", "{", " ">> \o text \o <<" ", "}", " ", "}">>
      [] kind = 8 -> <<"p", "r", "u", "v", "a", "m", "m", " ", "{", " ">> \o text \o <<" ", "}", " ", "e", " ", "s", "i", " ", "s", "c", "h", "i", "a", "t", "t", "a", " ", "(", "q", ")", " ", "{", " ">> \o text \o <<" ", "}">>
      [] kind = 9 -> <<"m", "e", "n", "t", "r", "e", " ", "c", "h", "e", " ", "(", "x", ")", " ", "{", " ">> \o text \o <<" ", "}">>
      [] kind = 10 -> <<"p", "e", " ", "(", ";", ";", ")", " ", "{", " ">> \o text \o <<" ", "}">>

IndentSources ==
    {Wrapped(kind, text) \o <<"\n">> : kind \in WrapKinds, text \in InnerTexts}
        \cup {Wrapped(outer, Wrapped(kind, <<"y">>)) \o <<"\n">> :
                  outer \in WrapKinds, kind \in WrapKinds}

InitIndent ==
    /\ source \in IndentSources
    /\ PipelineStart

SpecIndent == InitIndent /\ [][NextEmit]_vars

\* gen_statement or gen_expression leaves the indent as it found it, on the
\* node and on every node below it
RECURSIVE AllBalanced(_)
AllBalanced(node) ==
    /\ \A level \in 0..MaxIndent : indent_after(node, level) = level
    /\ \A i \in 1..Len(Children(node)) : AllBalanced(Children(node)[i])

\* C28: indentation is balanced: for every statement and expression the
\* indent after gen_statement or gen_expression returns is the indent before
\* the call (the else-if return, the block bodies of arrow functions and the
\* export that sets the indent to 0 for a while included), it never
\* underflows, and it is 0 after generate returns.
C28_IndentBalanced ==
    Generated =>
        /\ codegen.indent = 0
        /\ \A i \in 1..Len(program.val.statements) :
               AllBalanced(program.val.statements[i])

\* a program with an else-if chain inside the body of an else-if has been
\* generated, and so has one with an export inside a body
C28_Witness ==
    /\ Generated
    /\ source \in {Wrapped(3, <<"s", "i", " ", "(", "x", ")", " ", "{", " ", "}", " ", "s", "i", "n", "n", "o^", " ", "s", "i", " ", "(", "y", ")", " ", "{", " ", "z", " ", "}", " ", "s", "i", "n", "n", "o^", " ", "{", " ", "}">>) \o <<"\n">>,
                   Wrapped(9, <<"m", "a", "n", "n", " ", "f", "o", "r", " ", "f", "a", "c", "c", " ", "h", "(", ")", " ", "{", " ", "z", " ", "}">>) \o <<"\n">>}
    /\ Occurrences(output, "\n") >= 5

(***************************************************************************)
(* Import statements: every source of SpecImport is one import whose       *)
(* source is a string literal of SpecString, and the steps are those of    *)
(* SpecEmit.                                                               *)
(***************************************************************************)
ImportSources == {<<"c", "h", "i", "a", "m", "m", " ", "{", " ", "m", " ", "}", " ", "d", "a", " ">> \o literal : literal \in StringSources}

InitImport ==
    /\ source \in ImportSources
    /\ PipelineStart

SpecImport == InitImport /\ [][NextEmit]_vars

\* the program is one import statement
ImportGenerated ==
    /\ Generated
    /\ Len(program.val.statements) = 1
    /\ program.val.statements[1].type = "Import"

TheImport == program.val.statements[1]

\* the sixth token of the text is a String of this value, before ';'
QuotedSixth(text, value) ==
    /\ Len(tokenize(text)) >= 7
    /\ tokenize(text)[6].kind = "String"
    /\ tokenize(text)[6].value = value
    /\ tokenize(text)[7].kind = "Semicolon"

\* C29: every string the generator places between double quotes is escaped:
\* for an Import whose source string contains '"', '\' or a line feed, the
\* emitted 'from "..."' literal escapes them exactly as a String expression
\* does, so that the quoted text denotes the source string and the quote is
\* not closed early.
C29_ImportSourceEscaped ==
    ImportGenerated =>
        /\ output = <<"i", "m", "p", "o", "r", "t", " ", "{", " ", "m", " ", "}", " ", "f", "r", "o", "m", " ">> \o StatedString(TheImport.source) \o <<";", "\n">>
        /\ QuotedSixth(output, TheImport.source)

(***************************************************************************)
(* Compound assignment: every source of SpecCompound is a run of names,    *)
(* compound-assignment operators, '=', 'si' and '(' with blanks between;   *)
(* the steps are those of SpecParse.                                       *)
(***************************************************************************)
MaxCompoundFrags == 4

CompoundFrags == {<<"x">>, <<"+", "=">>, <<"-", "=">>, <<"*", "=">>, <<"/", "=">>, <<"=">>, <<"s", "i">>, <<"(">>}

CompoundSources == FragSeqs(CompoundFrags, MaxCompoundFrags)

InitCompound ==
    /\ source \in CompoundSources
    /\ PipelineStart

SpecCompound == InitCompound /\ [][NextParse]_vars

CompoundKinds == {"PlusEqual", "MinusEqual", "StarEqual", "SlashEqual"}

\* the lexer made a compound-assignment token of the source
HasCompound == \E i \in 1..Len(tokens) : tokens[i].kind \in CompoundKinds

\* C30: '+=', '-=', '*=' and '/=' are made by the lexer and accepted by no
\* production of the parser: every source in which one of them occurs
\* outside a string or comment makes parse return Err, and no Program that
\* parse returns holds a compound assignment.
C30_CompoundRejected ==
    /\ (pc \in {"parse", "parsed", "aborted"} /\ HasCompound) =>
           /\ pc # "aborted"
           /\ pc = "parsed" => result.kind = "Err"
    /\ (pc = "parsed" /\ result.kind = "Ok") => ~HasCompound

=============================================================================
